---- MODULE Spec2Model ----
(***************************************************************************)
(* Product import, event publication and webhook delivery of the Django    *)
(* backend (api/tasks.py, api/utils.py, api/views.py, api/webhook_views.py)*)
(* as state machines.                                                      *)
(*                                                                         *)
(*   SpecImport   process_product_file run on an uploaded CSV, then run a  *)
(*                second time on the same content                          *)
(*   SpecWebhook  one delivery (the send_webhook task, or the synchronous  *)
(*                test view) while the management endpoints patch and      *)
(*                delete the webhook                                       *)
(*   SpecPublish  the product endpoints and the trigger_webhooks_task      *)
(*                worker publishing events while the webhook store or the  *)
(*                broker may fail                                          *)
(*   SpecBulk     the bulk-delete endpoint and the bulk_delete_products    *)
(*                worker                                                   *)
(*   SpecUpload   the chunked and the single-request upload endpoints      *)
(*                feeding process_product_file                             *)
(*   SpecCleanup  SpecImport on a file that os.remove may fail to delete   *)
(*   SpecRedeliver SpecImport under a queue that delivers a finished job   *)
(*                again                                                    *)
(*   SpecAtomic   SpecImport when the database may refuse a chunk's write  *)
(*   SpecChunks   process_product_file run whole on one file under several *)
(*                chunk sizes                                              *)
(*   SpecRace     two import jobs and the single-product endpoints         *)
(*                interleaved at the database calls                        *)
(*   SpecManage   one delivery while webhooks are created and patched, the *)
(*                PATCH split into its read and its write                  *)
(*   SpecWebhookLive  SpecWebhook with the worker's steps weakly fair      *)
(*   SpecStatus   the task status endpoint on a recorded job               *)
(*   SpecBatch    the batch update of the product endpoint, with products  *)
(*                created and deleted in between                           *)
(*   SpecBoth     the synchronous bulk-delete loop and the                 *)
(*                bulk_delete_products job run on the same store and ids   *)
(***************************************************************************)
EXTENDS Integers, Sequences, FiniteSets, TLC

VARIABLES
    products,    \* the Product table: a set of rows [id, sku, name, description, status]
    nextId,      \* the next value of the table's auto-increment primary key
    disk,        \* uploads directory: path -> file content, or NoFile
    uploaded,    \* the CSV content the client uploaded (kept to upload it again)
    job,         \* import jobs: job id -> the task's position, locals and recorded outcome
    published,   \* trigger_webhooks_task.apply_async calls accepted by the broker, in order
    webhooks,    \* the Webhook table: webhook id -> row (exists = FALSE once deleted)
    wjob,        \* the delivery under way: its position, locals, outcome and history
    call,        \* the last publication: its arguments, what it scheduled and returned
    response,    \* the last response of a product endpoint
    ops,         \* the number of product requests handled so far
    req,         \* the last bulk-delete, upload or webhook request: its arguments and locals
    btasks,      \* bulk_delete_products jobs: task id -> arguments, position and outcome
    sessions,    \* upload id -> what became of the upload session so far
    stored,      \* what the job tracker and the TaskResult table hold for the queried task
    answer,      \* the last response of the task status endpoint
    runs         \* the outcomes of the runs compared: of an import per chunk size,
                 \* of a bulk delete per path

importVars == <<products, nextId, disk, uploaded, job, published>>

hookVars == <<webhooks, wjob>>

pubVars == <<call, response, ops>>

queryVars == <<stored, answer, runs>>

reqVars == <<req, btasks, sessions, queryVars>>

vars == <<importVars, hookVars, pubVars, reqVars>>

(***************************************************************************)
(* Strings.  A string is [pre, body, up, post]: `pre` leading and `post`   *)
(* trailing blanks around `body`, which is written in upper case when `up`.*)
(* A string of blanks only has body "" and pre > 0.                        *)
(***************************************************************************)
S(b) == [pre |-> 0, body |-> b, up |-> FALSE, post |-> 0]

Padded(b) == [pre |-> 1, body |-> b, up |-> FALSE, post |-> 1]

Upper(b) == [pre |-> 0, body |-> b, up |-> TRUE, post |-> 0]

Blanks == [pre |-> 1, body |-> "", up |-> FALSE, post |-> 0]

strip(s) == [s EXCEPT !.pre = 0, !.post = 0]

lower(s) == [s EXCEPT !.up = FALSE]

Range(seq) == {seq[i] : i \in 1..Len(seq)}

(***************************************************************************)
(* CSV files.  A file is a header (the raw column names, in order) and its *)
(* data rows.  A row gives, for the columns whose trimmed lower-cased name *)
(* is sku, name, description or status, the cell under that column; pandas *)
(* keys the row by the RAW column names (row.to_dict()).                   *)
(***************************************************************************)
chunksize == 10

MaxTail == 2

\* `locked`: os.remove of the file raises OSError (no permission, or the file is held open)
NoFile == [exists |-> FALSE, header |-> << >>, rows |-> << >>, locked |-> FALSE]

CsvFile(h, rs) == [exists |-> TRUE, header |-> h, rows |-> rs, locked |-> FALSE]

Locked(file) == [file EXCEPT !.locked = TRUE]

Row(sku, name, status) ==
    [sku |-> sku, name |-> name, description |-> S("d"), status |-> status]

Headers ==
    { <<S("sku"), S("name"), S("description"), S("status")>>,
      <<S("sku"), Padded("name"), Upper("description")>>,
      <<Upper("sku"), S("name"), S("description"), S("status")>>,
      <<S("sku"), S("name"), S("status")>>,
      <<S("name")>> }

FillSku == <<"f1", "f2", "f3", "f4", "f5", "f6", "f7", "f8", "f9", "f10", "f11">>

\* k rows with pairwise different skus f1..fk
Filler(k) == [i \in 1..k |-> Row(S(FillSku[i]), S("n1"), S("active"))]

FillerLens == {0, chunksize - 1, chunksize}

TailRows ==
    { Row(S("a"), S("n1"), S("")),
      Row(S("a"), Padded("n2"), S("inactive")),
      Row(Padded("b"), S("n1"), Upper("inactive")),
      Row(S("f1"), S("n2"), S("bogus")),
      Row(Blanks, S("n1"), S("active")) }

Tails == UNION {[1..n -> TailRows] : n \in 0..MaxTail}

Files == {CsvFile(h, Filler(k) \o t) : h \in Headers, k \in FillerLens, t \in Tails}

Product(id, sku, name, status) ==
    [id |-> id, sku |-> sku, name |-> name, description |-> S("d"), status |-> status]

InitialStores ==
    { {},
      {Product(1, S("a"), S("old"), S("inactive"))},
      {Product(1, S("f1"), S("old"), S("active")), Product(2, S("b"), S("old"), S("inactive"))} }

(***************************************************************************)
(* _validate_csv_columns (tasks.py 357-385)                                *)
(***************************************************************************)
\* mutant: description is not required
required_columns_no_description == <<S("sku"), S("name")>>

required_columns == <<S("sku"), S("name"), S("description")>>

columns(file) == [i \in 1..Len(file.header) |-> lower(strip(file.header[i]))]

missing_columns(file) ==
    SelectSeq(required_columns, LAMBDA req_col : req_col \notin Range(columns(file)))

NoError == [kind |-> "none", row |-> 0, cols |-> << >>]

Error(kind, row, cols) == [kind |-> kind, row |-> row, cols |-> cols]

\* {'valid': ..., 'error': ...}; a file that cannot be read is invalid too
_validate_csv_columns(file) ==
    IF ~file.exists
    THEN [valid |-> FALSE, error |-> Error("read_error", 0, << >>)]
    ELSE IF missing_columns(file) # << >>
    THEN [valid |-> FALSE, error |-> Error("missing_columns", 0, missing_columns(file))]
    ELSE [valid |-> TRUE, error |-> NoError]

(***************************************************************************)
(* Row preparation (tasks.py 280-308, 390-403)                             *)
(***************************************************************************)
\* product_data.get(key, default) on row.to_dict(): the key is the raw column name
get(header, row, key, default) ==
    IF S(key) \in Range(header) THEN row[key] ELSE default

\* mutant: the sku is tested without trimming it
_validate_product_data_untrimmed(header, row) ==
    IF get(header, row, "sku", S("")) = S("") THEN "blank_sku" ELSE "none"

\* the row's error, or "none": only a sku that is empty after trimming is an error
_validate_product_data(header, row) ==
    IF strip(get(header, row, "sku", S(""))) = S("") THEN "blank_sku" ELSE "none"

normalize_status(header, row) ==
    LET status == lower(strip(get(header, row, "status", S("active"))))
    IN  IF status \in {S("active"), S("inactive")} THEN status ELSE S("active")

\* the batch item built from one validated row
prepare(header, row) ==
    [sku |-> strip(get(header, row, "sku", S(""))),
     name |-> strip(get(header, row, "name", S(""))),
     description |-> strip(get(header, row, "description", S(""))),
     status |-> normalize_status(header, row)]

(***************************************************************************)
(* _process_batch (tasks.py 406-492), run inside the chunk's transaction   *)
(***************************************************************************)
skus_of(store) == {p.sku : p \in store}

\* mutant: the existence lookup finds nothing
existing_skus_none(batch, store) == {}

\* Product.objects.filter(sku__in=batch_skus).values_list('sku')
existing_skus(batch, store) == {batch[i].sku : i \in 1..Len(batch)} \cap skus_of(store)

\* the unique index on Product.sku refuses the insert of `items` into `store`
sku_unique_violated(items, store) ==
    \/ \E i \in 1..Len(items) : items[i].sku \in skus_of(store)
    \/ \E i, j \in 1..Len(items) : i # j /\ items[i].sku = items[j].sku

\* sku_to_data = {item['sku']: item for item in to_update}: the last item of a sku wins
sku_to_data(to_update, sku) ==
    to_update[CHOOSE i \in 1..Len(to_update) :
                 /\ to_update[i].sku = sku
                 /\ \A j \in (i + 1)..Len(to_update) : to_update[j].sku # sku]

bulk_create(to_create, store, nid) ==
    store \cup { [id |-> nid + i - 1, sku |-> to_create[i].sku, name |-> to_create[i].name,
                  description |-> to_create[i].description, status |-> to_create[i].status]
                 : i \in 1..Len(to_create) }

\* mutant: the update is not restricted to the skus of the batch
bulk_update_unfiltered(to_update, store) ==
    LET update_skus == {to_update[i].sku : i \in 1..Len(to_update)}
    IN  { IF p.sku \in update_skus
          THEN [p EXCEPT !.name = sku_to_data(to_update, p.sku).name,
                         !.description = sku_to_data(to_update, p.sku).description,
                         !.status = sku_to_data(to_update, p.sku).status]
          ELSE IF to_update # << >>
          THEN [p EXCEPT !.name = to_update[1].name, !.status = to_update[1].status]
          ELSE p : p \in store }

\* the rows of `store` the update query selects, with name, description, status rewritten
bulk_update(to_update, store) ==
    LET update_skus == {to_update[i].sku : i \in 1..Len(to_update)}
    IN  { IF p.sku \in update_skus
          THEN [p EXCEPT !.name = sku_to_data(to_update, p.sku).name,
                         !.description = sku_to_data(to_update, p.sku).description,
                         !.status = sku_to_data(to_update, p.sku).status]
          ELSE p : p \in store }

\* mutant: bulk_create skips the rows whose sku is taken instead of raising
_process_batch_ignore_conflicts(batch, existing, store, nid, fail) ==
    LET to_create == SelectSeq(batch, LAMBDA item : item.sku \notin existing
                                                     /\ item.sku \notin skus_of(store))
        to_update == SelectSeq(batch, LAMBDA item : item.sku \in existing)
    IN  [raised |-> FALSE, stage |-> "none",
         store |-> bulk_update(to_update, bulk_create(to_create, store, nid)),
         nid |-> nid + Len(to_create),
         success_count |-> Len(to_create) + Len(to_update),
         n_create |-> Len(to_create), n_update |-> Len(to_update)]

\* `existing` is the result of the existence lookup; `store` the table the writes hit
\* `fail`: the statement the database refuses for a reason of its own ("none": no
\* such failure).  When it raises, `store` is what the function had written by then.
_process_batch(batch, existing, store, nid, fail) ==
    LET to_create == SelectSeq(batch, LAMBDA item : item.sku \notin existing)
        to_update == SelectSeq(batch, LAMBDA item : item.sku \in existing)
        products_to_update ==
            {p \in store : p.sku \in {to_update[i].sku : i \in 1..Len(to_update)}}
    IN  IF to_create # << >> /\ (sku_unique_violated(to_create, store) \/ fail = "create")
        THEN [raised |-> TRUE, stage |-> "create", store |-> store, nid |-> nid,
              success_count |-> 0,
              n_create |-> Len(to_create), n_update |-> Len(to_update)]
        ELSE IF products_to_update # {} /\ fail = "update"
        THEN [raised |-> TRUE, stage |-> "update", store |-> bulk_create(to_create, store, nid),
              nid |-> nid + Len(to_create), success_count |-> Len(to_create),
              n_create |-> Len(to_create), n_update |-> Len(to_update)]
        ELSE [raised |-> FALSE, stage |-> "none",
              store |-> bulk_update(to_update, bulk_create(to_create, store, nid)),
              nid |-> nid + Len(to_create),
              success_count |-> Len(to_create) + Cardinality(products_to_update),
              n_create |-> Len(to_create), n_update |-> Len(to_update)]

(***************************************************************************)
(* Webhook rows, header values and JSON                                    *)
(***************************************************************************)
WebhookIds == {1, 2, 3}

None == -1

\* a header value: plain text, or "sha256=" followed by the hex HMAC-SHA256 of msg under key
Text(v) == [text |-> v, key |-> "", msg |-> << >>]

Hmac(key, msg) == [text |-> "sha256=", key |-> key, msg |-> msg]

NoHeaders == [n \in {} |-> Text("")]

\* the JSON column event_types: a list of event types, or NULL
EventTypes(items) == [is_null |-> FALSE, items |-> items]

NullEventTypes == [is_null |-> TRUE, items |-> {}]

\* event_types or []
or_empty(event_types) == IF event_types.is_null THEN {} ELSE event_types.items

Webhook(enabled, event_types, secret, headers, retry_count) ==
    [exists |-> TRUE, enabled |-> enabled, event_types |-> event_types, secret |-> secret,
     headers |-> headers, timeout |-> 30, retry_count |-> retry_count,
     last_triggered_at |-> 0, last_response_code |-> 200, last_response_time |-> 45]

NoWebhook ==
    [exists |-> FALSE, enabled |-> FALSE, event_types |-> NullEventTypes, secret |-> "",
     headers |-> NoHeaders, timeout |-> 30, retry_count |-> 1,
     last_triggered_at |-> None, last_response_code |-> None, last_response_time |-> None]

\* mutant: the entries already present are kept
update_keeping(a, b) ==
    [n \in DOMAIN a \cup DOMAIN b |-> IF n \in DOMAIN a THEN a[n] ELSE b[n]]

\* dict.update: the entries of `b` replace and extend those of `a`
update(a, b) ==
    [n \in DOMAIN a \cup DOMAIN b |-> IF n \in DOMAIN b THEN b[n] ELSE a[n]]

\* a payload is a dict: its <<key, value>> pairs in insertion order; the keys in use,
\* in the order Python compares them
KeysInOrder == <<"deleted", "ids", "total">>

rank(key) == CHOOSE i \in 1..Len(KeysInOrder) : KeysInOrder[i] = key

\* mutant: the payload is serialized in insertion order
dumps_unsorted(payload) == payload

\* json.dumps(payload, sort_keys=True): the pairs, ordered by key
dumps_sort_keys(payload) ==
    [i \in 1..Len(payload) |->
        payload[CHOOSE k \in 1..Len(payload) :
                   Cardinality({m \in 1..Len(payload) : rank(payload[m][1]) < rank(payload[k][1])})
                       = i - 1]]

MaxRetry == 3

\* the number of requests the endpoints handle in one behaviour
MaxOps == 2

\* the JSON body of the request
envelope(event_type, payload) ==
    [event |-> event_type, timestamp |-> "now", data |-> payload]

NoReturn == [success |-> FALSE, status_code |-> None, response_time_ms |-> None,
             error |-> "none", attempt |-> 0]

NoDelivery ==
    [mode |-> "none", pc |-> "idle", outcome |-> "none", webhook_id |-> 0,
     event_type |-> "", payload |-> << >>, webhook |-> NoWebhook,
     request_headers |-> NoHeaders, full_payload |-> envelope("", << >>),
     attempt |-> 0, response_code |-> None, response_time |-> None, error_message |-> "none",
     ret |-> NoReturn, view_status |-> 0,
     posts |-> 0, responses |-> 0, first_ok |-> 0, sleeps |-> << >>, saves |-> 0]

\* send_webhook.delay(webhook_id, event_type, payload), or POST webhooks/<id>/test/
Delivery(mode, webhook_id, event_type, payload) ==
    [NoDelivery EXCEPT !.mode = mode, !.pc = "load", !.webhook_id = webhook_id,
                       !.event_type = event_type, !.payload = payload]

\* tasks.py 152-174: the defaults, then the custom headers, then the signature
request_headers(webhook, event_type, payload) ==
    LET defaults == [n \in {"Content-Type", "X-Webhook-Event", "User-Agent"} |->
                        IF n = "Content-Type" THEN Text("application/json")
                        ELSE IF n = "X-Webhook-Event" THEN Text(event_type)
                        ELSE Text("Django-Webhook-Client/1.0")]
        custom == update(defaults, webhook.headers)
    IN  IF webhook.secret # ""
        THEN update(custom, [n \in {"X-Webhook-Signature"} |->
                 Hmac(webhook.secret, dumps_sort_keys(payload))])
        ELSE custom

\* webhook_views.py 220-238: the same construction, for the event 'test'
test_request_headers(webhook, test_payload) ==
    LET defaults == [n \in {"Content-Type", "X-Webhook-Event", "User-Agent"} |->
                        IF n = "Content-Type" THEN Text("application/json")
                        ELSE IF n = "X-Webhook-Event" THEN Text("test")
                        ELSE Text("Django-Webhook-Client/1.0")]
        custom == update(defaults, webhook.headers)
    IN  IF webhook.secret # ""
        THEN update(custom, [n \in {"X-Webhook-Signature"} |->
                 Hmac(webhook.secret, dumps_sort_keys(test_payload))])
        ELSE custom

NoCall == [via |-> "none", event |-> "", fail |-> "none", hit |-> FALSE, jobs |-> << >>,
           ret |-> 0, raised |-> FALSE]

NoResponse == [op |-> "none", status |-> 0, id |-> 0, ids |-> {}, sku |-> S(""),
               deleted |-> 0, total |-> 0, errors |-> 0,
               task_id |-> 0, task_status |-> "", upload_id |-> 0, upload_complete |-> FALSE]

\* no upload id is in use
NoSessions == [u \in {1, 2} |-> "none"]

\* no request yet
NoReq == [kind |-> "none", n |-> 0, ids |-> << >>, upload_id |-> 0, end |-> "",
          accepted |-> FALSE, valid |-> FALSE, store |-> {}, left |-> {}, files |-> << >>,
          written |-> << >>, piece |-> [header |-> << >>, rows |-> << >>],
          tasks |-> 0, jobs |-> 0, instance |-> NoWebhook, body |-> {},
          given |-> 0, received |-> [u \in {1, 2} |-> << >>]]

\* a line of text: `pre` leading blanks, then the pieces of `parts` one after another
Line(pre, parts) == [pre |-> pre, parts |-> parts]

\* nothing queried: no live record, no TaskResult row
NoStored == [reachable |-> TRUE, state |-> "PENDING", result |-> 0,
             info |-> [present |-> FALSE, text |-> Line(0, << >>)],
             db |-> [found |-> FALSE, down |-> FALSE, status |-> "PENDING",
                     traceback |-> [none |-> TRUE, lines |-> << >>],
                     result |-> [kind |-> "none", has_error |-> FALSE, error |-> Line(0, << >>)]]]

NoAnswer == [asked |-> FALSE, http |-> 0, state |-> "", has_result |-> FALSE, result |-> 0,
             has_error |-> FALSE, error |-> Line(0, << >>)]

NoRuns == << >>

(***************************************************************************)
(* process_product_file (tasks.py 242-354): one action per step between    *)
(* which other processes can run.                                          *)
(***************************************************************************)
JobIds == {1, 2}

Paths == [j \in JobIds |-> j]

NoJob ==
    [pc |-> "none", state |-> "NONE", path |-> 0, row_number |-> 0, success_count |-> 0,
     error |-> NoError, result |-> [success_count |-> 0, total_processed |-> 0],
     n_create |-> 0, n_update |-> 0, chunks |-> 0, store0 |-> {}, final |-> {},
     existing |-> {}]

\* process_product_file.apply_async([path])
Enqueued(path, store) == [NoJob EXCEPT !.pc = "queued", !.state = "PENDING", !.path = path,
                                       !.store0 = store]

\* the task ends by raising: the except clause removes the file, Celery records FAILURE
Failed(j, err) ==
    [job[j] EXCEPT !.pc = "done", !.state = "FAILURE", !.error = err, !.final = products]

\* mutant: the cleanup is forgotten
Removed_nothing(path) == disk

\* os.remove(file_path)
Removed(path) == [disk EXCEPT ![path] = NoFile]

\* os.path.exists(file_path) holds and os.remove(file_path) raises
remove_raises(file) == file.exists /\ file.locked

\* the task ends with the OSError of an os.remove outside the except clause; the
\* except clause tries again, swallows the second OSError and re-raises the first
FailedRemove(j) == Failed(j, Error("os_error", 0, << >>))

\* lines 258-265: the header check, before any row is read
ValidateColumns(j) ==
    /\ job[j].pc = "queued"
    /\ LET column_validation == _validate_csv_columns(disk[job[j].path])
       IN  IF ~column_validation.valid /\ remove_raises(disk[job[j].path])
           THEN /\ job' = [job EXCEPT ![j] = FailedRemove(j)]
                /\ disk' = disk
           ELSE IF ~column_validation.valid
           THEN /\ job' = [job EXCEPT ![j] = Failed(j, column_validation.error)]
                /\ disk' = Removed(job[j].path)
           ELSE /\ job' = [job EXCEPT ![j].pc = "chunks", ![j].state = "STARTED"]
                /\ disk' = disk
    /\ UNCHANGED <<products, nextId, uploaded, published, hookVars, pubVars, reqVars>>

\* lines 272-308: the chunk of `size` rows that follows row `row_number` of the file,
\* validated and prepared
read_chunk(file, row_number, size) ==
    LET first == row_number + 1
        last == IF first + size - 1 < Len(file.rows)
                THEN first + size - 1 ELSE Len(file.rows)
    IN  [first |-> first, last |-> last,
         bad |-> {n \in first..last : _validate_product_data(file.header, file.rows[n]) # "none"},
         batch |-> [i \in 1..(last - first + 1) |-> prepare(file.header, file.rows[first + i - 1])]]

\* the next chunk of job j
chunk_of(j) == read_chunk(disk[job[j].path], job[j].row_number, chunksize)

\* mutant: the chunk is written without a transaction
atomic_not(before, done) == done.store

\* line 312: with transaction.atomic(), what the block leaves in the table
atomic(before, done) == IF done.raised THEN before ELSE done.store

\* lines 280-323 once the existence lookup of the chunk's transaction returned `existing`
WriteChunk(j, existing, fail) ==
    /\ LET file == disk[job[j].path]
           chunk == chunk_of(j)
           first == chunk.first
           last == chunk.last
           bad == chunk.bad
           batch == chunk.batch
           done == _process_batch(batch, existing, products, nextId, fail)
       IN  /\ first <= Len(file.rows)
           /\ IF bad # {} /\ remove_raises(file)
              THEN /\ job' = [job EXCEPT ![j] =
                          [FailedRemove(j) EXCEPT
                              !.row_number = CHOOSE n \in bad : \A m \in bad : n <= m]]
                   /\ UNCHANGED <<products, nextId, disk>>
              ELSE IF bad # {}
              THEN /\ job' = [job EXCEPT ![j] =
                          [Failed(j, Error("blank_sku", CHOOSE n \in bad : \A m \in bad : n <= m, << >>))
                              EXCEPT !.row_number = CHOOSE n \in bad : \A m \in bad : n <= m]]
                   /\ disk' = Removed(job[j].path)
                   /\ UNCHANGED <<products, nextId>>
              ELSE IF done.raised
              THEN /\ job' = [job EXCEPT ![j] =
                          [Failed(j, Error(IF done.stage = "create" THEN "create_failed"
                                           ELSE "update_failed", 0, << >>))
                              EXCEPT !.row_number = last,
                                     !.n_create = @ + done.n_create,
                                     !.n_update = @ + done.n_update]]
                   /\ disk' = IF remove_raises(file) THEN disk ELSE Removed(job[j].path)
                   /\ products' = atomic(products, done)
                   /\ nextId' = nextId
              ELSE /\ products' = atomic(products, done)
                   /\ nextId' = done.nid
                   /\ job' = [job EXCEPT ![j].row_number = last,
                                         ![j].success_count = @ + done.success_count,
                                         ![j].n_create = @ + done.n_create,
                                         ![j].n_update = @ + done.n_update,
                                         ![j].chunks = @ + 1,
                                         ![j].pc = "chunks"]
                   /\ disk' = disk
    /\ UNCHANGED <<uploaded, published, hookVars, pubVars, reqVars>>

\* lines 272-323: the next chunk, validated, then looked up and written in one
\* transaction that no other process interleaves with
ProcessChunk(j) ==
    /\ job[j].pc = "chunks"
    /\ WriteChunk(j, existing_skus(chunk_of(j).batch, products), "none")

uploaded_event(success_count) ==
    [task |-> "trigger_webhooks_task", event |-> "product.uploaded",
     success_count |-> success_count, total_processed |-> success_count]

\* lines 325-343: the file is removed, the publication scheduled, the result returned;
\* apply_async raises when the broker refuses the message
Finish(j) ==
    /\ job[j].pc = "chunks"
    /\ job[j].row_number >= Len(disk[job[j].path].rows)
    /\ \E accepted \in BOOLEAN :
          IF remove_raises(disk[job[j].path])
          THEN /\ job' = [job EXCEPT ![j] = FailedRemove(j)]
               /\ UNCHANGED <<disk, published>>
          ELSE IF accepted
          THEN /\ disk' = Removed(job[j].path)
               /\ published' = Append(published, uploaded_event(job[j].success_count))
               /\ job' = [job EXCEPT ![j].pc = "done", ![j].state = "SUCCESS",
                                     ![j].final = products,
                                     ![j].result = [success_count |-> job[j].success_count,
                                                    total_processed |-> job[j].success_count]]
          ELSE /\ disk' = Removed(job[j].path)
               /\ published' = published
               /\ job' = [job EXCEPT ![j] = Failed(j, Error("publish_failed", 0, << >>))]
    /\ UNCHANGED <<products, nextId, uploaded, hookVars, pubVars, reqVars>>

\* the client uploads the same content again once the first import has ended
Reimport ==
    /\ job[1].pc = "done"
    /\ job[2].pc = "none"
    /\ disk' = [disk EXCEPT ![Paths[2]] = uploaded]
    /\ job' = [job EXCEPT ![2] = Enqueued(Paths[2], products)]
    /\ UNCHANGED <<products, nextId, uploaded, published, hookVars, pubVars, reqVars>>

InitImport ==
    /\ products \in InitialStores
    /\ nextId = Cardinality(products) + 1
    /\ uploaded \in Files
    /\ disk = [p \in JobIds |-> IF p = Paths[1] THEN uploaded ELSE NoFile]
    /\ job = [j \in JobIds |-> IF j = 1 THEN Enqueued(Paths[1], products) ELSE NoJob]
    /\ published = << >>
    /\ webhooks = [w \in WebhookIds |-> NoWebhook]
    /\ wjob = NoDelivery
    /\ call = NoCall /\ response = NoResponse /\ ops = 0
    /\ req = NoReq /\ btasks = << >> /\ sessions = NoSessions
    /\ stored = NoStored /\ answer = NoAnswer /\ runs = NoRuns

Validate == \E j \in JobIds : ValidateColumns(j)

Chunk == \E j \in JobIds : ProcessChunk(j)

Finished == \E j \in JobIds : Finish(j)

NextImport == Validate \/ Chunk \/ Finished \/ Reimport

SpecImport == InitImport /\ [][NextImport]_vars

\* the same import when the database may refuse the bulk_create or the bulk_update of
\* a chunk (tasks.py 447-453, 476-486)
FailingChunk ==
    \E j \in JobIds, fail \in {"create", "update"} :
        /\ job[j].pc = "chunks"
        /\ WriteChunk(j, existing_skus(chunk_of(j).batch, products), fail)

NextAtomic == NextImport \/ FailingChunk

SpecAtomic == InitImport /\ [][NextAtomic]_vars

\* the same import when the uploaded file may be one that os.remove cannot delete
InitCleanup ==
    /\ products \in InitialStores
    /\ nextId = Cardinality(products) + 1
    /\ uploaded \in Files \cup {Locked(f) : f \in Files}
    /\ disk = [p \in JobIds |-> IF p = Paths[1] THEN uploaded ELSE NoFile]
    /\ job = [j \in JobIds |-> IF j = 1 THEN Enqueued(Paths[1], products) ELSE NoJob]
    /\ published = << >>
    /\ webhooks = [w \in WebhookIds |-> NoWebhook]
    /\ wjob = NoDelivery
    /\ call = NoCall /\ response = NoResponse /\ ops = 0
    /\ req = NoReq /\ btasks = << >> /\ sessions = NoSessions
    /\ stored = NoStored /\ answer = NoAnswer /\ runs = NoRuns

SpecCleanup == InitCleanup /\ [][NextImport]_vars

\* the queue hands a job that already ran to its end to a worker once more: the same
\* task id, the same file_path, the record of the first run still in place
Redeliver(j) ==
    /\ job[j].pc = "done"
    /\ job' = [job EXCEPT ![j].pc = "queued"]
    /\ UNCHANGED <<products, nextId, disk, uploaded, published, hookVars, pubVars, reqVars>>

Redelivered == \E j \in JobIds : Redeliver(j)

NextRedeliver == NextImport \/ Redelivered

SpecRedeliver == InitImport /\ [][NextRedeliver]_vars

(***************************************************************************)
(* process_product_file as a function of the file, the store and the chunk *)
(* size (tasks.py 255-343): what one uninterrupted run leaves behind       *)
(***************************************************************************)
ChunkSizes == {1, 2, chunksize}

Outcome(state, success_count, store) ==
    [state |-> state, success_count |-> success_count, store |-> store]

RECURSIVE read_chunks(_, _, _, _, _, _)
\* lines 272-323: the loop over the chunks, from the row after `row_number`
read_chunks(file, size, row_number, store, nid, success_count) ==
    IF row_number >= Len(file.rows)
    THEN Outcome("SUCCESS", success_count, store)
    ELSE LET next == read_chunk(file, row_number, size)
             done == _process_batch(next.batch, existing_skus(next.batch, store), store, nid,
                                    "none")
         IN  IF next.bad # {} \/ done.raised
             THEN Outcome("FAILURE", success_count, atomic(store, done))
             ELSE read_chunks(file, size, next.last, done.store, done.nid,
                              success_count + done.success_count)

\* lines 258-343
import_file(file, size, store, nid) ==
    IF ~_validate_csv_columns(file).valid
    THEN Outcome("FAILURE", 0, store)
    ELSE read_chunks(file, size, 0, store, nid, 0)

\* the file is imported into the initial store with one more chunk size
RunImport ==
    /\ \E size \in ChunkSizes \ DOMAIN runs :
          runs' = [s \in DOMAIN runs \cup {size} |->
                      IF s = size THEN import_file(uploaded, size, products, nextId)
                      ELSE runs[s]]
    /\ UNCHANGED <<importVars, hookVars, pubVars, req, btasks, sessions, stored, answer>>

InitChunks ==
    /\ products \in InitialStores
    /\ nextId = Cardinality(products) + 1
    /\ uploaded \in Files
    /\ disk = [p \in JobIds |-> NoFile]
    /\ job = [j \in JobIds |-> NoJob]
    /\ published = << >>
    /\ webhooks = [w \in WebhookIds |-> NoWebhook]
    /\ wjob = NoDelivery
    /\ call = NoCall /\ response = NoResponse /\ ops = 0
    /\ req = NoReq /\ btasks = << >> /\ sessions = NoSessions
    /\ stored = NoStored /\ answer = NoAnswer /\ runs = NoRuns

NextChunks == RunImport

SpecChunks == InitChunks /\ [][NextChunks]_vars

(***************************************************************************)
(* Properties of the import                                                *)
(***************************************************************************)
FileRows == uploaded.rows

\* what a reader of the CSV sees, without reference to the import's own code
HasColumn(name) == \E i \in 1..Len(uploaded.header) : uploaded.header[i].body = name

HeaderValid == HasColumn("sku") /\ HasColumn("name") /\ HasColumn("description")

SkuReadable == S("sku") \in Range(uploaded.header)

BlankSkuAt(n) == ~SkuReadable \/ FileRows[n].sku.body = ""

BlankRows == {n \in 1..Len(FileRows) : BlankSkuAt(n)}

DistinctSkus == {strip(FileRows[n].sku) : n \in 1..Len(FileRows)}

Proj(store) == {[sku |-> p.sku, name |-> p.name, description |-> p.description,
                 status |-> p.status] : p \in store}

\* C1: whenever process_product_file succeeds, its success_count is the number of
\* distinct SKUs of the file, also when a SKU occurs in several rows or chunks.
C1_SuccessCountIsDistinctSkus ==
    \A j \in JobIds :
        job[j].state = "SUCCESS" => job[j].result.success_count = Cardinality(DistinctSkus)

\* C2: importing the same content a second time creates no product and leaves the
\* set of products (sku, name, description, status) as the first run left it; after
\* a successful first run every row of the second run is classified as an update.
C2_ReimportIsIdempotent ==
    job[2].pc = "done" =>
        /\ Proj(products) = Proj(job[1].final)
        /\ Cardinality(products) = Cardinality(job[1].final)
        /\ {p.id : p \in products} = {p.id : p \in job[1].final}
        /\ job[1].state = "SUCCESS" =>
              job[2].n_create = 0 /\ job[2].n_update = Len(FileRows)

C2_Witness ==
    /\ job[2].state = "SUCCESS"
    /\ job[1].state = "SUCCESS"
    /\ job[1].n_create > 0
    /\ job[2].chunks = 2
    /\ Cardinality(DistinctSkus) < Len(FileRows)

\* C3: a header that lacks sku, name or description (names compared trimmed and
\* lower-cased) fails the job before any row is read: the store is untouched, the
\* file is deleted, the job is FAILED naming exactly the missing columns, and no
\* product.uploaded is published; no other header is refused for its columns.
C3_MissingColumnRejected ==
    \A j \in JobIds :
        /\ (job[j].pc = "done" /\ ~HeaderValid) =>
              /\ job[j].state = "FAILURE"
              /\ job[j].error.kind = "missing_columns"
              /\ {c.body : c \in Range(job[j].error.cols)} =
                    {c \in {"sku", "name", "description"} : ~HasColumn(c)}
              /\ job[j].row_number = 0
              /\ job[j].chunks = 0
              /\ products = job[j].store0
              /\ ~disk[job[j].path].exists
              /\ published = << >>
        /\ job[j].error.kind = "missing_columns" => ~HeaderValid

C3_Witness ==
    /\ job[1].pc = "done"
    /\ HasColumn("sku") /\ HasColumn("name") /\ ~HasColumn("description")
    /\ Len(FileRows) > chunksize
    /\ job[1].error.cols = <<S("description")>>

\* C4: a blank or missing sku at row N fails the whole job: the chunks before the
\* chunk of row N are committed and stay, that chunk and the later ones write
\* nothing, the file is deleted and nothing is published.
C4_BlankSkuAbortsJob ==
    \A j \in JobIds :
        /\ (job[j].pc = "done" /\ HeaderValid /\ BlankRows # {}) =>
              /\ job[j].state = "FAILURE"
              /\ ~disk[job[j].path].exists
              /\ published = << >>
        /\ (job[j].pc = "done" /\ job[j].error.kind = "blank_sku") =>
              LET N == job[j].error.row
                  before == ((N - 1) \div chunksize) * chunksize
                  LastRow(s) == CHOOSE n \in 1..before :
                                   /\ strip(FileRows[n].sku) = s
                                   /\ \A m \in (n + 1)..before : strip(FileRows[m].sku) # s
                  written == {strip(FileRows[n].sku) : n \in 1..before}
              IN  /\ N \in BlankRows /\ \A m \in BlankRows : N <= m
                  /\ job[j].chunks * chunksize = before
                  /\ skus_of(products) = skus_of(job[j].store0) \cup written
                  /\ Cardinality(products) = Cardinality(skus_of(products))
                  /\ \A p \in products :
                        IF p.sku \in written
                        THEN /\ p.name = strip(get(uploaded.header, FileRows[LastRow(p.sku)], "name", S("")))
                             /\ p.status = normalize_status(uploaded.header, FileRows[LastRow(p.sku)])
                        ELSE p \in job[j].store0

C4_Witness ==
    /\ job[1].pc = "done"
    /\ job[1].error.kind = "blank_sku"
    /\ job[1].error.row > chunksize
    /\ job[1].chunks = 1
    /\ Cardinality(products) > Cardinality(job[1].store0)
    /\ \E n \in 1..Len(FileRows) : n > chunksize /\ n < job[1].error.row

\* C11: a failure of the webhook subsystem never fails the background job: when
\* every chunk of a file with a valid header was committed, process_product_file
\* ends in SUCCESS with its result, also when the broker refuses the product.uploaded
\* publication.
C11_PublishFailureKeepsJobSuccess ==
    \A j \in JobIds :
        (/\ job[j].pc = "done"
         /\ HeaderValid
         /\ job[j].chunks * chunksize >= Len(FileRows)) =>
            /\ job[j].state = "SUCCESS"
            /\ job[j].result.success_count = job[j].success_count

\* the jobs that ended in SUCCESS
Succeeded == {j \in JobIds : job[j].state = "SUCCESS"}

\* C18: when process_product_file succeeds its file is gone from the disk, every row
\* of the file is stored, and exactly one product.uploaded publication carrying the
\* job's success_count and total_processed has been scheduled; a job that failed
\* scheduled none.
C18_SuccessDeletesThenPublishes ==
    /\ Len(published) = Cardinality(Succeeded)
    /\ \A j \in Succeeded :
          LET k == Cardinality({i \in Succeeded : i <= j})
          IN  /\ job[j].pc = "done"
              /\ ~disk[job[j].path].exists
              /\ job[j].chunks * chunksize >= Len(FileRows)
              /\ DistinctSkus \subseteq skus_of(products)
              /\ published[k].event = "product.uploaded"
              /\ published[k].success_count = job[j].result.success_count
              /\ published[k].total_processed = job[j].result.total_processed
              /\ job[j].result.success_count = job[j].success_count

C18_Witness ==
    /\ job[1].state = "FAILURE" /\ job[1].error.kind = "publish_failed"
    /\ job[2].state = "SUCCESS"
    /\ job[2].chunks = 2
    /\ Len(published) = 1
    /\ published[1].success_count = job[2].result.success_count

\* C19: a job that ends with a failure is recorded as FAILURE and its file is gone
\* unless the delete itself fails; a failing delete does not replace the error the
\* job failed with: a file without the required columns still fails with the
\* missing columns, and no job fails with the error of the delete.
C19_FailureCleansUpAndKeepsError ==
    \A j \in JobIds :
        (job[j].pc = "done" /\ job[j].state # "SUCCESS") =>
            /\ job[j].state = "FAILURE"
            /\ ~uploaded.locked => ~disk[job[j].path].exists
            /\ ~HeaderValid => job[j].error.kind = "missing_columns"
            /\ job[j].error.kind # "os_error"

IsTerminal(j) == job[j].state \in {"SUCCESS", "FAILURE"}

\* C20: once a job is recorded as SUCCESS or FAILURE, no later step changes its
\* recorded state, result or error, a second execution of the same job included.
C20_TerminalRecordNeverChanges ==
    [][\A j \in JobIds :
          IsTerminal(j) =>
              /\ job'[j].state = job[j].state
              /\ job'[j].result = job[j].result
              /\ job'[j].error = job[j].error]_vars

\* C26: importing the same file into the same store with any two chunk sizes gives
\* the same job state, the same final set of products and, when the job succeeds,
\* the same success_count.
C26_ChunkSizeIrrelevant ==
    \A s1, s2 \in DOMAIN runs :
        /\ runs[s1].state = runs[s2].state
        /\ Proj(runs[s1].store) = Proj(runs[s2].store)
        /\ runs[s1].state = "SUCCESS" => runs[s1].success_count = runs[s2].success_count

WriteFailed(j) == job[j].pc = "done" /\ job[j].error.kind \in {"create_failed", "update_failed"}

FileHasColumn(file, c) == S(c) \in Range(columns(file))

\* the status a row asks for: its status cell trimmed and lower-cased when that is
\* active or inactive, active when it is anything else or the file has no status column
InputStatus(file, row) ==
    LET status == lower(strip(row.status))
    IN  IF FileHasColumn(file, "status") /\ status \in {S("active"), S("inactive")}
        THEN status ELSE S("active")

Trimmed(s) == s = strip(s)

\* C30: every stored product has status active or inactive and a trimmed sku, name
\* and description; and a chunk that an import commits stores, for every sku of the
\* chunk, the trimmed sku, name and description of the sku's last row in the chunk
\* with that row's status trimmed and lower-cased (active when the status is absent,
\* empty or unrecognized).
C30_ImportNormalisesRows ==
    /\ [](\A p \in products :
             /\ p.status \in {S("active"), S("inactive")}
             /\ Trimmed(p.sku) /\ Trimmed(p.name) /\ Trimmed(p.description))
    /\ [][\A j \in JobIds :
             (job[j].pc = "chunks" /\ job'[j].chunks = job[j].chunks + 1) =>
                 LET file == disk[job[j].path]
                     c == chunk_of(j)
                 IN  \A n \in c.first..c.last :
                        (\A m \in (n + 1)..c.last :
                             strip(file.rows[m].sku) # strip(file.rows[n].sku)) =>
                            \E p \in products' :
                                /\ p.sku = strip(file.rows[n].sku)
                                /\ p.name = strip(file.rows[n].name)
                                /\ p.description = strip(file.rows[n].description)
                                /\ p.status = InputStatus(file, file.rows[n])]_vars

\* row n is the last row of the file with its sku
IsLastOfSku(n) ==
    \A m \in (n + 1)..Len(FileRows) : strip(FileRows[m].sku) # strip(FileRows[n].sku)

\* C39: when an import has succeeded, the table it leaves holds, for every sku of the
\* file, a product with the trimmed name and description and the normalized status
\* of the last row of the file with that sku.
C39_LastRowOfSkuWins ==
    \A j \in JobIds :
        job[j].state = "SUCCESS" =>
            \A n \in 1..Len(FileRows) :
                IsLastOfSku(n) =>
                    \E p \in job[j].final :
                        /\ p.sku = strip(FileRows[n].sku)
                        /\ p.name = strip(FileRows[n].name)
                        /\ p.description = strip(FileRows[n].description)
                        /\ p.status = InputStatus(uploaded, FileRows[n])

\* C38: a step of an import deletes no product and changes neither the id nor the
\* sku of a product; a product whose sku does not occur in the file is left as it
\* is, and every product the step adds has a sku of the file.
C38_ImportTouchesOnlyNamedProducts ==
    [][/\ \A p \in products :
             \E q \in products' :
                 /\ q.id = p.id /\ q.sku = p.sku
                 /\ p.sku \notin DistinctSkus => q = p
       /\ \A q \in products' :
             q.id \notin {p.id : p \in products} => q.sku \in DistinctSkus]_vars

\* the import succeeded; it rewrote a stored product the file names, added products,
\* and a stored product the file does not name is as it was
C38_Witness ==
    /\ job[1].state = "SUCCESS"
    /\ \E p \in job[1].store0 : p.sku \notin DistinctSkus /\ p \in products
    /\ \E p \in job[1].store0 :
           /\ p.sku \in DistinctSkus /\ p \notin products
           /\ \E q \in products : q.id = p.id /\ q.sku = p.sku
    /\ Cardinality(products) > Cardinality(job[1].store0)

(***************************************************************************)
(* send_webhook (tasks.py 127-239) and WebhookTestView.post                *)
(* (webhook_views.py 184-318), one action per database or network call,    *)
(* and the management endpoints of webhook_views.py                        *)
(***************************************************************************)
\* what requests.post can do: answer with a status, time out, or fail to connect
HttpResults == {[kind |-> "response", status |-> 200], [kind |-> "response", status |-> 400],
                [kind |-> "timeout", status |-> None], [kind |-> "connection", status |-> None]}

Payloads == { << <<"deleted", 1>>, <<"total", 2>>, <<"ids", 0>> >>,
              << <<"total", 2>>, <<"deleted", 1>> >> }

\* mutant: the whole of the job's copy of the row is written back
Telemetry_of_copy(row, at, code, time) ==
    [wjob.webhook EXCEPT !.last_triggered_at = at, !.last_response_code = code,
                         !.last_response_time = time]

\* save(update_fields=['last_triggered_at', 'last_response_code', 'last_response_time'])
\* (tasks.py 201-204, 228-231): the three columns of the stored row are written
Telemetry(row, at, code, time) ==
    [row EXCEPT !.last_triggered_at = at, !.last_response_code = code,
                !.last_response_time = time]

\* timezone.now(), as a logical time that grows with every request and every write
now == wjob.posts + wjob.saves + 1

\* mutant: the lookup ignores the enabled flag
get_any(row) == row.exists

\* tasks.py 145: Webhook.objects.get(id=webhook_id, enabled=True) finds the row
get_enabled(row) == row.exists /\ row.enabled

\* tasks.py 144-181: the lookup, then the request is prepared
Load ==
    /\ wjob.mode = "task" /\ wjob.pc = "load"
    /\ LET row == webhooks[wjob.webhook_id]
       IN  IF ~get_enabled(row)
           THEN wjob' = [wjob EXCEPT !.pc = "done", !.outcome = "not_found",
                                     !.ret = [NoReturn EXCEPT !.error = "not_found"]]
           ELSE wjob' = [wjob EXCEPT
                    !.webhook = row,
                    !.request_headers = request_headers(row, wjob.event_type, wjob.payload),
                    !.full_payload = envelope(wjob.event_type, wjob.payload),
                    !.pc = IF row.retry_count > 0 THEN "post" ELSE "final"]
    /\ UNCHANGED <<importVars, webhooks, pubVars, reqVars>>

\* tasks.py 190-198 and 216-221: one requests.post and what it raises or returns
Post ==
    /\ wjob.mode = "task" /\ wjob.pc = "post"
    /\ \E r \in HttpResults :
          IF r.kind = "response"
          THEN wjob' = [wjob EXCEPT !.posts = @ + 1, !.responses = @ + 1,
                                    !.response_code = r.status, !.response_time = 45,
                                    !.first_ok = IF @ = 0 /\ r.status < 400
                                                 THEN wjob.attempt + 1 ELSE @,
                                    !.pc = "save"]
          ELSE wjob' = [wjob EXCEPT !.posts = @ + 1, !.error_message = r.kind,
                                    !.pc = "backoff"]
    /\ UNCHANGED <<importVars, webhooks, pubVars, reqVars>>

\* tasks.py 200-214: the telemetry write inside the try block, then the status test;
\* save(update_fields=...) raises DatabaseError when the row is gone
Save ==
    /\ wjob.mode = "task" /\ wjob.pc = "save"
    /\ IF ~webhooks[wjob.webhook_id].exists
       THEN /\ wjob' = [wjob EXCEPT !.error_message = "unexpected", !.pc = "backoff"]
            /\ webhooks' = webhooks
       ELSE /\ webhooks' = [webhooks EXCEPT ![wjob.webhook_id] =
                              Telemetry(@, now, wjob.response_code, wjob.response_time)]
            /\ IF wjob.response_code < 400
               THEN wjob' = [wjob EXCEPT
                        !.saves = @ + 1, !.pc = "done", !.outcome = "succeeded",
                        !.ret = [success |-> TRUE, status_code |-> wjob.response_code,
                                 response_time_ms |-> wjob.response_time,
                                 error |-> "none", attempt |-> wjob.attempt + 1]]
               ELSE wjob' = [wjob EXCEPT !.saves = @ + 1, !.error_message = "http_error",
                                         !.pc = "backoff"]
    /\ UNCHANGED <<importVars, pubVars, reqVars>>

\* mutant: the worker also sleeps after the last attempt
backoff_after_last(attempt, retry_count) ==
    IF attempt < retry_count THEN <<2 ^ attempt>> ELSE << >>

\* tasks.py 223-225: the time.sleep calls that follow the failed attempt `attempt`
backoff(attempt, retry_count) ==
    IF attempt < retry_count - 1 THEN <<2 ^ attempt>> ELSE << >>

\* mutant: the loop starts the same attempt again
Backoff_same_attempt ==
    /\ wjob.mode = "task" /\ wjob.pc = "backoff"
    /\ wjob' = [wjob EXCEPT
           !.sleeps = @ \o backoff(wjob.attempt, wjob.webhook.retry_count),
           !.pc = IF wjob.attempt + 1 < wjob.webhook.retry_count THEN "post" ELSE "final"]
    /\ UNCHANGED <<importVars, webhooks, pubVars, reqVars>>

\* tasks.py 223-225 and the loop's next iteration
Backoff ==
    /\ wjob.mode = "task" /\ wjob.pc = "backoff"
    /\ wjob' = [wjob EXCEPT
           !.sleeps = @ \o backoff(wjob.attempt, wjob.webhook.retry_count),
           !.attempt = @ + 1,
           !.pc = IF wjob.attempt + 1 < wjob.webhook.retry_count THEN "post" ELSE "final"]
    /\ UNCHANGED <<importVars, webhooks, pubVars, reqVars>>

\* mutant: the status code is stored as it is, None included
response_code_as_is(response_code) == response_code

\* tasks.py 229: response_code or 0
response_code_or_0(response_code) ==
    IF response_code = None \/ response_code = 0 THEN 0 ELSE response_code

\* tasks.py 227-239: the telemetry write after the loop, outside any try block
FinalSave ==
    /\ wjob.mode = "task" /\ wjob.pc = "final"
    /\ IF ~webhooks[wjob.webhook_id].exists
       THEN /\ wjob' = [wjob EXCEPT !.pc = "done", !.outcome = "raised"]
            /\ webhooks' = webhooks
       ELSE /\ webhooks' = [webhooks EXCEPT ![wjob.webhook_id] =
                              Telemetry(@, now, response_code_or_0(wjob.response_code),
                                        wjob.response_time)]
            /\ wjob' = [wjob EXCEPT
                   !.saves = @ + 1, !.pc = "done", !.outcome = "exhausted",
                   !.ret = [success |-> FALSE, status_code |-> wjob.response_code,
                            response_time_ms |-> wjob.response_time,
                            error |-> wjob.error_message,
                            attempt |-> wjob.webhook.retry_count]]
    /\ UNCHANGED <<importVars, pubVars, reqVars>>

\* webhook_views.py 203-245: Webhook.objects.get(id=webhook_id), enabled or not
TestLoad ==
    /\ wjob.mode = "test" /\ wjob.pc = "load"
    /\ LET row == webhooks[wjob.webhook_id]
       IN  IF ~row.exists
           THEN wjob' = [wjob EXCEPT !.pc = "done", !.outcome = "not_found",
                                     !.view_status = 404]
           ELSE wjob' = [wjob EXCEPT
                    !.webhook = row,
                    !.request_headers = test_request_headers(row, wjob.payload),
                    !.full_payload = envelope("test", wjob.payload),
                    !.pc = "post"]
    /\ UNCHANGED <<importVars, webhooks, pubVars, reqVars>>

\* mutant: a request that raised is tried again while attempts are left
TestPost_retrying ==
    /\ wjob.mode = "test" /\ wjob.pc = "post"
    /\ \E r \in HttpResults :
          IF r.kind = "response"
          THEN wjob' = [wjob EXCEPT !.posts = @ + 1, !.responses = @ + 1,
                                    !.response_code = r.status, !.response_time = 45,
                                    !.first_ok = IF r.status < 400 THEN 1 ELSE 0,
                                    !.pc = "save"]
          ELSE IF wjob.posts + 1 < wjob.webhook.retry_count
          THEN wjob' = [wjob EXCEPT !.posts = @ + 1, !.error_message = r.kind]
          ELSE wjob' = [wjob EXCEPT !.posts = @ + 1, !.error_message = r.kind,
                                    !.pc = "done", !.outcome = "test_failed",
                                    !.ret = [NoReturn EXCEPT !.error = r.kind],
                                    !.view_status = 400]
    /\ UNCHANGED <<importVars, webhooks, pubVars, reqVars>>

\* webhook_views.py 252-261 and 283-300: the single requests.post
TestPost ==
    /\ wjob.mode = "test" /\ wjob.pc = "post"
    /\ \E r \in HttpResults :
          IF r.kind = "response"
          THEN wjob' = [wjob EXCEPT !.posts = @ + 1, !.responses = @ + 1,
                                    !.response_code = r.status, !.response_time = 45,
                                    !.first_ok = IF r.status < 400 THEN 1 ELSE 0,
                                    !.pc = "save"]
          ELSE wjob' = [wjob EXCEPT !.posts = @ + 1, !.error_message = r.kind,
                                    !.pc = "done", !.outcome = "test_failed",
                                    !.ret = [NoReturn EXCEPT !.error = r.kind],
                                    !.view_status = 400]
    /\ UNCHANGED <<importVars, webhooks, pubVars, reqVars>>

\* webhook_views.py 263-318: the telemetry write, the status test and the response
TestSave ==
    /\ wjob.mode = "test" /\ wjob.pc = "save"
    /\ IF ~webhooks[wjob.webhook_id].exists
       THEN /\ wjob' = [wjob EXCEPT !.error_message = "unexpected", !.pc = "done",
                                    !.outcome = "test_failed",
                                    !.ret = [NoReturn EXCEPT !.error = "unexpected"],
                                    !.view_status = 400]
            /\ webhooks' = webhooks
       ELSE /\ webhooks' = [webhooks EXCEPT ![wjob.webhook_id] =
                              Telemetry(@, now, wjob.response_code, wjob.response_time)]
            /\ IF wjob.response_code < 400
               THEN wjob' = [wjob EXCEPT
                        !.saves = @ + 1, !.pc = "done", !.outcome = "test_ok",
                        !.ret = [success |-> TRUE, status_code |-> wjob.response_code,
                                 response_time_ms |-> wjob.response_time,
                                 error |-> "none", attempt |-> 0],
                        !.view_status = 200]
               ELSE wjob' = [wjob EXCEPT
                        !.saves = @ + 1, !.error_message = "http_error", !.pc = "done",
                        !.outcome = "test_failed",
                        !.ret = [success |-> FALSE, status_code |-> wjob.response_code,
                                 response_time_ms |-> wjob.response_time,
                                 error |-> "http_error", attempt |-> 0],
                        !.view_status = 400]
    /\ UNCHANGED <<importVars, pubVars, reqVars>>

\* request bodies of PATCH webhooks/<id>/: `fields` are the keys the body holds
PatchBodies ==
    { [fields |-> {"enabled"}, enabled |-> FALSE, retry_count |-> 1, last_response_code |-> 0],
      [fields |-> {"retry_count"}, enabled |-> FALSE, retry_count |-> 1, last_response_code |-> 0],
      [fields |-> {"enabled", "last_response_code"}, enabled |-> TRUE, retry_count |-> 1,
       last_response_code |-> 0] }

\* serializers.py 41-66: the fields of the body that are not read-only
validated_data(body) ==
    body.fields \ {"id", "created_at", "updated_at", "last_triggered_at",
                   "last_response_code", "last_response_time"}

\* webhook_views.py 110-145: WebhookDetailView.patch
PatchWebhook ==
    /\ \E id \in WebhookIds, body \in PatchBodies :
          /\ webhooks[id].exists
          /\ webhooks' = [webhooks EXCEPT ![id] =
                [@ EXCEPT !.enabled = IF "enabled" \in validated_data(body)
                                      THEN body.enabled ELSE @,
                          !.retry_count = IF "retry_count" \in validated_data(body)
                                          THEN body.retry_count ELSE @]]
    /\ UNCHANGED <<importVars, wjob, pubVars, reqVars>>

\* webhook_views.py 147-176: WebhookDetailView.delete
DeleteWebhook ==
    /\ \E id \in WebhookIds :
          /\ webhooks[id].exists
          /\ webhooks' = [webhooks EXCEPT ![id] = NoWebhook]
    /\ UNCHANGED <<importVars, wjob, pubVars, reqVars>>

CustomHeaders ==
    { NoHeaders,
      [n \in {"X-Webhook-Signature", "Content-Type"} |->
          IF n = "Content-Type" THEN Text("text/plain") ELSE Text("custom")] }

InitWebhook ==
    /\ products = {} /\ nextId = 1 /\ uploaded = NoFile
    /\ disk = [p \in JobIds |-> NoFile]
    /\ job = [j \in JobIds |-> NoJob]
    /\ published = << >>
    /\ \E secret \in {"", "k"}, headers \in CustomHeaders, retry_count \in 1..MaxRetry :
          webhooks = [w \in WebhookIds |->
                         IF w = 1
                         THEN Webhook(TRUE, EventTypes({"product.deleted"}), secret, headers, retry_count)
                         ELSE NoWebhook]
    /\ \E mode \in {"task", "test"}, payload \in Payloads :
          wjob = Delivery(mode, 1, "product.deleted", payload)
    /\ call = NoCall /\ response = NoResponse /\ ops = 0
    /\ req = NoReq /\ btasks = << >> /\ sessions = NoSessions
    /\ stored = NoStored /\ answer = NoAnswer /\ runs = NoRuns

NextWebhook ==
    \/ Load \/ Post \/ Save \/ Backoff \/ FinalSave
    \/ TestLoad \/ TestPost \/ TestSave
    \/ PatchWebhook \/ DeleteWebhook

SpecWebhook == InitWebhook /\ [][NextWebhook]_vars

\* the worker runs each step of a delivery it has started: requests.post is given
\* timeout=webhook.timeout (tasks.py 195), so it returns or raises, and time.sleep
\* and the database writes return
SpecWebhookLive ==
    /\ SpecWebhook
    /\ WF_vars(Load) /\ WF_vars(Post) /\ WF_vars(Save) /\ WF_vars(Backoff) /\ WF_vars(FinalSave)
    /\ WF_vars(TestLoad) /\ WF_vars(TestPost) /\ WF_vars(TestSave)

\* ModelSerializer.update: the validated fields are set on the instance
serializer_update(instance, body) ==
    [instance EXCEPT !.enabled = IF "enabled" \in validated_data(body)
                                 THEN body.enabled ELSE @,
                     !.retry_count = IF "retry_count" \in validated_data(body)
                                     THEN body.retry_count ELSE @]

\* webhook_views.py 127: Webhook.objects.get(id=webhook_id) at the start of a PATCH
PatchGet ==
    /\ ops < MaxOps
    /\ req.kind # "patch"
    /\ \E id \in WebhookIds, body \in PatchBodies :
          IF ~webhooks[id].exists
          THEN req' = [NoReq EXCEPT !.kind = "patch_404", !.n = id]
          ELSE req' = [NoReq EXCEPT !.kind = "patch", !.n = id, !.instance = webhooks[id],
                                    !.body = body]
    /\ ops' = ops + 1
    /\ UNCHANGED <<importVars, hookVars, call, response, btasks, sessions, queryVars>>

\* webhook_views.py 128-132: serializer.save(), which is instance.save() without
\* update_fields: every column is written from the instance read by PatchGet
PatchSave ==
    /\ req.kind = "patch"
    /\ webhooks' = [webhooks EXCEPT ![req.n] = serializer_update(req.instance, req.body)]
    /\ req' = [req EXCEPT !.kind = "patched"]
    /\ UNCHANGED <<importVars, wjob, pubVars, btasks, sessions, queryVars>>

\* webhook_views.py 41-80: WebhookListView.post; the read-only fields of the body are
\* dropped and the new row has no telemetry
CreateWebhook ==
    /\ ops < MaxOps
    /\ \E id \in WebhookIds, body \in PatchBodies :
          /\ ~webhooks[id].exists
          /\ \A w \in WebhookIds : w < id => webhooks[w].exists
          /\ webhooks' = [webhooks EXCEPT ![id] =
                serializer_update(
                    Telemetry(Webhook(TRUE, EventTypes({"product.deleted"}), "", NoHeaders, 3),
                              None, None, None), body)]
          /\ req' = [NoReq EXCEPT !.kind = "created", !.n = id, !.body = body]
    /\ ops' = ops + 1
    /\ UNCHANGED <<importVars, wjob, call, response, btasks, sessions, queryVars>>

InitManage ==
    /\ products = {} /\ nextId = 1 /\ uploaded = NoFile
    /\ disk = [p \in JobIds |-> NoFile]
    /\ job = [j \in JobIds |-> NoJob]
    /\ published = << >>
    /\ \E retry_count \in 1..MaxRetry :
          webhooks = [w \in WebhookIds |->
                         IF w = 1
                         THEN Webhook(TRUE, EventTypes({"product.deleted"}), "", NoHeaders, retry_count)
                         ELSE NoWebhook]
    /\ \E mode \in {"task", "test"} :
          wjob = Delivery(mode, 1, "product.deleted", << <<"total", 2>>, <<"deleted", 1>> >>)
    /\ call = NoCall /\ response = NoResponse /\ ops = 0
    /\ req = NoReq /\ btasks = << >> /\ sessions = NoSessions
    /\ stored = NoStored /\ answer = NoAnswer /\ runs = NoRuns

NextManage ==
    \/ Load \/ Post \/ Save \/ Backoff \/ FinalSave
    \/ TestLoad \/ TestPost \/ TestSave
    \/ PatchGet \/ PatchSave \/ CreateWebhook

SpecManage == InitManage /\ [][NextManage]_vars

(***************************************************************************)
(* Properties of the delivery                                              *)
(***************************************************************************)
Row1 == webhooks[wjob.webhook_id]

SumSeq(s) == IF s = << >> THEN 0 ELSE
             LET RECURSIVE Sum(_)
                 Sum(n) == IF n = 0 THEN 0 ELSE s[n] + Sum(n - 1)
             IN  Sum(Len(s))

\* C5: a send_webhook job makes at most retry_count POSTs; once an attempt obtains a
\* status < 400 no further POST is made and the job returns success=true with
\* attempt = the 1-based index of that attempt.
C5_StopsAtFirstStatusBelow400 ==
    wjob.mode = "task" =>
        /\ wjob.posts <= wjob.webhook.retry_count
        /\ wjob.first_ok > 0 => wjob.posts = wjob.first_ok
        /\ (wjob.first_ok > 0 /\ wjob.pc = "done") =>
              wjob.ret.success /\ wjob.ret.attempt = wjob.first_ok

IsSortedSerializationOf(msg, data) ==
    /\ Len(msg) = Len(data)
    /\ Range(msg) = Range(data)
    /\ \A i, j \in 1..Len(msg) : i < j => rank(msg[i][1]) < rank(msg[j][1])

\* the telemetry fields a webhook row is created with
Untouched(row) ==
    /\ row.last_triggered_at = Webhook(TRUE, NullEventTypes, "", NoHeaders, 1).last_triggered_at
    /\ row.last_response_code = Webhook(TRUE, NullEventTypes, "", NoHeaders, 1).last_response_code
    /\ row.last_response_time = Webhook(TRUE, NullEventTypes, "", NoHeaders, 1).last_response_time

\* C13: a send_webhook job whose webhook is missing or disabled when it is loaded makes
\* no HTTP request, does not sleep, writes no telemetry of any webhook and returns
\* success=false without a retry; every job that went on had loaded an enabled webhook.
C13_MissingOrDisabledShortCircuits ==
    wjob.mode = "task" =>
        /\ wjob.outcome = "not_found" =>
              /\ wjob.pc = "done"
              /\ wjob.posts = 0 /\ wjob.attempt = 0
              /\ wjob.sleeps = << >>
              /\ wjob.saves = 0
              /\ \A w \in WebhookIds : webhooks[w].exists => Untouched(webhooks[w])
              /\ ~wjob.ret.success
        /\ (wjob.pc # "load" /\ wjob.outcome # "not_found") =>
              wjob.webhook.exists /\ wjob.webhook.enabled

C13_Witness ==
    /\ wjob.mode = "task"
    /\ wjob.outcome = "not_found"
    /\ Row1.exists /\ ~Row1.enabled
    /\ Row1.retry_count > 1

\* C8: with a non-empty secret the request carries X-Webhook-Signature = 'sha256=' +
\* hex HMAC-SHA256, keyed by the secret, of the sorted-key JSON of the payload (the
\* 'data' member of the body); without a secret the dispatcher adds no signature
\* header. The task and the test view build it the same way.
C8_SignatureOverSortedPayload ==
    wjob.posts > 0 =>
        LET h == wjob.request_headers
            sig == "X-Webhook-Signature"
        IN  /\ wjob.full_payload.data = wjob.payload
            /\ wjob.webhook.secret # "" =>
                  /\ sig \in DOMAIN h
                  /\ h[sig].text = "sha256="
                  /\ h[sig].key = wjob.webhook.secret
                  /\ IsSortedSerializationOf(h[sig].msg, wjob.full_payload.data)
            /\ wjob.webhook.secret = "" =>
                  /\ sig \in DOMAIN h => sig \in DOMAIN wjob.webhook.headers
                  /\ \A n \in DOMAIN h : h[n].text # "sha256="

C8_Witness ==
    /\ wjob.mode = "test"
    /\ wjob.posts = 1
    /\ wjob.webhook.secret = "k"
    /\ Len(wjob.payload) = 3
    /\ wjob.payload[2][1] = "total"
    /\ wjob.request_headers["X-Webhook-Signature"].msg[2][1] = "ids"

\* the fixed default headers of a delivery
DefaultHeaders ==
    [n \in {"Content-Type", "X-Webhook-Event", "User-Agent"} |->
        IF n = "Content-Type" THEN Text("application/json")
        ELSE IF n = "X-Webhook-Event"
        THEN Text(IF wjob.mode = "test" THEN "test" ELSE wjob.event_type)
        ELSE Text("Django-Webhook-Client/1.0")]

\* C14 (amended): the headers sent are the fixed defaults overlaid with the webhook's
\* custom headers, the custom value winning over a default of the same name; on a
\* webhook with a secret the computed X-Webhook-Signature is set last and replaces a
\* custom header of that name. Nothing else is sent.
C14_CustomHeadersOverlayDefaults ==
    wjob.posts > 0 =>
        LET h == wjob.request_headers
            custom == wjob.webhook.headers
            sig == "X-Webhook-Signature"
            signed == wjob.webhook.secret # ""
        IN  /\ DOMAIN h = DOMAIN DefaultHeaders \cup DOMAIN custom
                             \cup (IF signed THEN {sig} ELSE {})
            /\ \A n \in DOMAIN DefaultHeaders \ DOMAIN custom : h[n] = DefaultHeaders[n]
            /\ \A n \in DOMAIN custom : (n # sig \/ ~signed) => h[n] = custom[n]
            /\ signed => h[sig].text = "sha256=" /\ h[sig].key = wjob.webhook.secret

C14_Witness ==
    /\ wjob.mode = "task"
    /\ wjob.posts > 0
    /\ wjob.webhook.secret = "k"
    /\ DOMAIN wjob.webhook.headers = {"X-Webhook-Signature", "Content-Type"}
    /\ wjob.request_headers["Content-Type"] = Text("text/plain")
    /\ wjob.request_headers["X-Webhook-Signature"].text = "sha256="

\* C14 as stated: every custom header is sent with its custom value
C14_AsStated ==
    wjob.posts > 0 =>
        \A n \in DOMAIN wjob.webhook.headers :
            wjob.request_headers[n] = wjob.webhook.headers[n]

\* C22: the test view posts once whatever the webhook's retry_count is: it never
\* sleeps, never starts a second attempt, and has posted exactly once when it answers
\* for a webhook it found, whether the request succeeded, got a status >= 400, timed
\* out or could not connect.
C22_TestPostsExactlyOnce ==
    wjob.mode = "test" =>
        /\ wjob.sleeps = << >>
        /\ wjob.attempt = 0
        /\ wjob.posts <= 1
        /\ wjob.pc = "save" => wjob.posts = 1
        /\ (wjob.pc = "done" /\ wjob.outcome # "not_found") =>
              /\ wjob.posts = 1
              /\ wjob.view_status = IF wjob.outcome = "test_ok" THEN 200 ELSE 400

\* a test of a webhook with retry_count > 1 that timed out
C22_Witness ==
    /\ wjob.mode = "test" /\ wjob.pc = "done"
    /\ wjob.webhook.retry_count > 1
    /\ wjob.error_message = "timeout"
    /\ wjob.posts = 1 /\ wjob.view_status = 400

\* C28: a send_webhook job all of whose retry_count attempts failed has made exactly
\* retry_count POSTs and returns success=false with the attempt count retry_count,
\* the error of the last failed attempt and the status code of the last attempt that
\* obtained a response (none if no attempt did).
C28_ExhaustedOutcome ==
    (wjob.mode = "task" /\ wjob.pc = "done" /\ wjob.outcome \notin {"not_found", "succeeded"}) =>
        /\ wjob.posts = wjob.webhook.retry_count
        /\ wjob.outcome = "exhausted"
        /\ ~wjob.ret.success
        /\ wjob.ret.attempt = wjob.webhook.retry_count
        /\ wjob.ret.error = wjob.error_message /\ wjob.error_message # "none"
        /\ wjob.ret.status_code = IF wjob.responses = 0 THEN None ELSE wjob.response_code

\* the states of the retry loop of send_webhook: an attempt is under way; the job
\* returned success; the loop ended with every attempt failed (tasks.py 227)
DeliveryAttempting == wjob.mode = "task" /\ wjob.pc \in {"post", "save", "backoff"}

DeliverySucceeded == wjob.mode = "task" /\ wjob.pc = "done" /\ wjob.outcome = "succeeded"

DeliveryExhausted == wjob.mode = "task" /\ wjob.pc = "final"

\* C29: every send_webhook job terminates: from an attempt it reaches the succeeded
\* state or the exhausted state, after at most retry_count POSTs and at most
\* retry_count - 1 sleeps, and the attempt index never decreases.
C29_DeliveryTerminates ==
    /\ DeliveryAttempting ~> (DeliverySucceeded \/ DeliveryExhausted)
    /\ (wjob.mode = "task") ~> (wjob.pc = "done")
    /\ [](DeliveryAttempting \/ DeliverySucceeded \/ DeliveryExhausted =>
             /\ wjob.posts <= wjob.webhook.retry_count
             /\ wjob.attempt <= wjob.webhook.retry_count
             /\ wjob.posts <= wjob.attempt + 1
             /\ Len(wjob.sleeps) <= wjob.webhook.retry_count - 1)
    /\ [][wjob'.attempt >= wjob.attempt]_vars

\* every one of several attempts was made and failed, with a sleep between them
C29_Witness ==
    /\ wjob.mode = "task" /\ wjob.pc = "done" /\ wjob.outcome = "exhausted"
    /\ wjob.webhook.retry_count >= 2
    /\ wjob.posts = wjob.webhook.retry_count
    /\ Len(wjob.sleeps) = wjob.webhook.retry_count - 1

\* the columns of a webhook row other than the telemetry
Managed(row) ==
    [row EXCEPT !.last_triggered_at = 0, !.last_response_code = 0, !.last_response_time = 0]

\* C35: a step of a delivery job changes no column of any webhook but the three
\* telemetry fields, and no row but its own webhook's: what a management update
\* stored between the job's load and its save is still stored after the save.
C35_DeliveryWritesOnlyTelemetry ==
    [][wjob' # wjob =>
          \A w \in WebhookIds :
              /\ Managed(webhooks'[w]) = Managed(webhooks[w])
              /\ w # wjob.webhook_id => webhooks'[w] = webhooks[w]]_vars

\* the webhook was disabled and its retry_count changed after the job loaded it, and
\* the job has written its telemetry since: the job's copy is stale, the row is not
C35_Witness ==
    /\ wjob.mode = "task" /\ wjob.pc = "done" /\ wjob.outcome = "exhausted"
    /\ wjob.webhook.enabled /\ ~webhooks[wjob.webhook_id].enabled
    /\ webhooks[wjob.webhook_id].exists
    /\ webhooks[wjob.webhook_id].last_triggered_at = wjob.posts + wjob.saves
    /\ wjob.saves >= 1

\* C36: a send_webhook job sends a POST only while its webhook is stored and enabled:
\* once the webhook is disabled or deleted the job makes no further attempt.
C36_NoPostWhileDisabledOrDeleted ==
    [][(wjob.mode = "task" /\ wjob'.posts = wjob.posts + 1) =>
          /\ webhooks[wjob.webhook_id].exists
          /\ webhooks[wjob.webhook_id].enabled]_vars

\* C37: the attempt that obtained a status < 400 ends the job with success, whether
\* the telemetry write that follows it succeeds or fails, and no POST follows it.
C37_ClassifiedByHttpResultOnly ==
    /\ [][(wjob.mode = "task" /\ wjob.pc = "save" /\ wjob.response_code < 400
            /\ wjob' # wjob) =>
              /\ wjob'.pc = "done"
              /\ wjob'.outcome = "succeeded"
              /\ wjob'.ret.success
              /\ wjob'.ret.status_code = wjob.response_code]_vars
    /\ [][(wjob.mode = "task" /\ wjob.first_ok > 0) => wjob'.posts = wjob.posts]_vars

TelemetryOf(row) == <<row.last_triggered_at, row.last_response_code, row.last_response_time>>

\* C25: the telemetry of an existing webhook changes only in the step in which a
\* delivery writes it, and a webhook that is created starts without telemetry,
\* whatever the body of the request holds.
C25_TelemetryOnlyByDelivery ==
    [][\A w \in WebhookIds :
          /\ (/\ webhooks[w].exists /\ webhooks'[w].exists
              /\ TelemetryOf(webhooks'[w]) # TelemetryOf(webhooks[w])) =>
                 /\ w = wjob.webhook_id
                 /\ wjob.pc \in {"save", "final"}
                 /\ wjob'.saves = wjob.saves + 1
          /\ (~webhooks[w].exists /\ webhooks'[w].exists) =>
                 TelemetryOf(webhooks'[w]) = <<None, None, None>>]_vars

(***************************************************************************)
(* Publication: trigger_webhooks (utils.py 148-178), trigger_webhooks_task *)
(* (tasks.py 73-124) and the product endpoints of ProductEditView that     *)
(* call them (views.py 310-362, 492-533, 664-765)                          *)
(***************************************************************************)
EventCatalog == {"product.created", "product.updated", "product.deleted",
                 "product.bulk_updated", "product.bulk_deleted", "product.uploaded"}

\* what can go wrong inside a publication: the query on the Webhook table raises, or
\* the broker refuses the at-th send_webhook.delay
Failures == {[kind |-> "none", at |-> 0], [kind |-> "load", at |-> 0],
             [kind |-> "delay", at |-> 1], [kind |-> "delay", at |-> 2]}

\* the ids in `ids`, in ascending order
Ascending(ids) ==
    [i \in 1..Cardinality(ids) |->
        CHOOSE w \in ids : Cardinality({v \in ids : v < w}) = i - 1]

\* utils.py 161-168 / tasks.py 92-98: the enabled webhooks subscribed to event_type
subscribed(event_type, rows) ==
    Ascending({w \in WebhookIds :
                  /\ rows[w].exists /\ rows[w].enabled
                  /\ event_type \in or_empty(rows[w].event_types)})

\* the try block of a publication: the jobs the broker accepted, the value computed,
\* and whether an exception left the block
try_publish(event_type, rows, fail) ==
    LET matching == subscribed(event_type, rows)
    IN  IF fail.kind = "load"
        THEN [jobs |-> << >>, ret |-> 0, raised |-> TRUE]
        ELSE IF fail.kind = "delay" /\ fail.at <= Len(matching)
        THEN [jobs |-> SubSeq(matching, 1, fail.at - 1), ret |-> 0, raised |-> TRUE]
        ELSE [jobs |-> matching, ret |-> Len(matching), raised |-> FALSE]

\* mutant: no except clause, the exception leaves the function
trigger_webhooks_unguarded(event_type, rows, fail) == try_publish(event_type, rows, fail)

\* utils.py 148-178: except Exception: return 0
trigger_webhooks(event_type, rows, fail) ==
    LET done == try_publish(event_type, rows, fail)
    IN  IF done.raised THEN [done EXCEPT !.ret = 0, !.raised = FALSE] ELSE done

\* mutant: the filter ignores the enabled flag
trigger_webhooks_task_all(event_type, rows, fail) ==
    LET matching == Ascending({w \in WebhookIds :
                                  /\ rows[w].exists
                                  /\ event_type \in or_empty(rows[w].event_types)})
    IN  [jobs |-> matching, ret |-> Len(matching), raised |-> FALSE]

\* tasks.py 73-124: the same, returning webhooks_triggered (0 in the except clause)
trigger_webhooks_task(event_type, rows, fail) ==
    LET done == try_publish(event_type, rows, fail)
    IN  IF done.raised THEN [done EXCEPT !.ret = 0, !.raised = FALSE] ELSE done

\* the record of one publication; `hit` tells whether the failure struck inside it
Called(via, event_type, fail, done) ==
    [via |-> via, event |-> event_type, fail |-> fail.kind,
     hit |-> try_publish(event_type, webhooks, fail).raised,
     jobs |-> done.jobs, ret |-> done.ret, raised |-> done.raised]

\* the response of a product endpoint: the normal one, or the 500 of the view's own
\* except clause when the publication raised
Responded(normal, done) ==
    IF done.raised THEN [normal EXCEPT !.status = 500] ELSE normal

\* views.py 310-362: ProductEditView.post
ProductCreate ==
    /\ ops < MaxOps
    /\ \E sku \in {S("a"), S("b"), S("")}, fail \in Failures :
          LET valid == sku # S("") /\ sku \notin skus_of(products)
              done == trigger_webhooks("product.created", webhooks, fail)
          IN  IF valid
              THEN /\ products' = products \cup {Product(nextId, sku, S("n1"), S("active"))}
                   /\ nextId' = nextId + 1
                   /\ call' = Called("view", "product.created", fail, done)
                   /\ response' = Responded([NoResponse EXCEPT !.op = "create", !.status = 201,
                                                !.id = nextId, !.sku = sku], done)
              ELSE /\ response' = [NoResponse EXCEPT !.op = "create", !.status = 400, !.sku = sku]
                   /\ call' = NoCall
                   /\ UNCHANGED <<products, nextId>>
    /\ ops' = ops + 1
    /\ UNCHANGED <<disk, uploaded, job, published, hookVars, reqVars>>

\* views.py 492-533: ProductEditView.patch, single update; id = 0: the body has no id
ProductUpdate ==
    /\ ops < MaxOps
    /\ \E id \in 0..3, sku \in {S("a"), S("b")}, fail \in Failures :
          LET found == {p \in products : p.id = id}
              valid == \A p \in products : p.sku = sku => p.id = id
              done == trigger_webhooks("product.updated", webhooks, fail)
          IN  IF id = 0
              THEN /\ response' = [NoResponse EXCEPT !.op = "update", !.status = 400]
                   /\ call' = NoCall
                   /\ UNCHANGED <<products>>
              ELSE IF found = {}
              THEN /\ response' = [NoResponse EXCEPT !.op = "update", !.status = 404, !.id = id]
                   /\ call' = NoCall
                   /\ UNCHANGED <<products>>
              ELSE IF ~valid
              THEN /\ response' = [NoResponse EXCEPT !.op = "update", !.status = 400, !.id = id]
                   /\ call' = NoCall
                   /\ UNCHANGED <<products>>
              ELSE /\ products' = {IF p.id = id THEN [p EXCEPT !.sku = sku, !.name = S("n2")]
                                   ELSE p : p \in products}
                   /\ call' = Called("view", "product.updated", fail, done)
                   /\ response' = Responded([NoResponse EXCEPT !.op = "update", !.status = 200,
                                                !.id = id, !.sku = sku], done)
    /\ ops' = ops + 1
    /\ UNCHANGED <<nextId, disk, uploaded, job, published, hookVars, reqVars>>

\* mutant: the event is published for a product that was not found, too
ProductDelete_always_publishing ==
    /\ ops < MaxOps
    /\ \E id \in 0..3, fail \in Failures :
          LET found == {p \in products : p.id = id}
              done == trigger_webhooks("product.deleted", webhooks, fail)
          IN  /\ products' = products \ found
              /\ call' = Called("view", "product.deleted", fail, done)
              /\ response' = [NoResponse EXCEPT !.op = "delete", !.id = id,
                                 !.status = IF id = 0 THEN 400 ELSE IF found = {} THEN 404 ELSE 200]
    /\ ops' = ops + 1
    /\ UNCHANGED <<nextId, disk, uploaded, job, published, hookVars, reqVars>>

\* views.py 736-771: ProductEditView.delete, single delete; id = 0: the body has no id
\* (nor ids, nor delete_all)
ProductDelete ==
    /\ ops < MaxOps
    /\ \E id \in 0..3, fail \in Failures :
          LET found == {p \in products : p.id = id}
              done == trigger_webhooks("product.deleted", webhooks, fail)
          IN  IF id = 0
              THEN /\ response' = [NoResponse EXCEPT !.op = "delete", !.status = 400]
                   /\ call' = NoCall
                   /\ UNCHANGED <<products>>
              ELSE IF found = {}
              THEN /\ response' = [NoResponse EXCEPT !.op = "delete", !.status = 404, !.id = id]
                   /\ call' = NoCall
                   /\ UNCHANGED <<products>>
              ELSE /\ products' = products \ found
                   /\ call' = Called("view", "product.deleted", fail, done)
                   /\ response' = Responded([NoResponse EXCEPT !.op = "delete", !.status = 200,
                                                !.id = id], done)
    /\ ops' = ops + 1
    /\ UNCHANGED <<nextId, disk, uploaded, job, published, hookVars, reqVars>>

\* views.py 668-712: ProductEditView.delete with fewer than 100 ids, done in the request
BulkDelete ==
    /\ ops < MaxOps
    /\ \E product_ids \in {<<1>>, <<1, 2>>, <<2, 3, 2>>}, fail \in Failures :
          LET found == {p \in products : p.id \in Range(product_ids)}
              done == trigger_webhooks("product.bulk_deleted", webhooks, fail)
          IN  /\ products' = products \ found
              /\ call' = Called("view", "product.bulk_deleted", fail, done)
              /\ response' = Responded([NoResponse EXCEPT
                                 !.op = "bulk_delete", !.status = 200,
                                 !.ids = Range(product_ids),
                                 !.deleted = Cardinality(found),
                                 !.total = Len(product_ids),
                                 !.errors = Len(product_ids) - Cardinality(found)], done)
    /\ ops' = ops + 1
    /\ UNCHANGED <<nextId, disk, uploaded, job, published, hookVars, reqVars>>

\* the worker runs the next trigger_webhooks_task message of the broker
RunTriggerTask ==
    /\ published # << >>
    /\ \E fail \in Failures :
          call' = Called("task", Head(published).event, fail,
                         trigger_webhooks_task(Head(published).event, webhooks, fail))
    /\ published' = Tail(published)
    /\ UNCHANGED <<products, nextId, disk, uploaded, job, hookVars, response, ops, reqVars>>

\* Webhook tables: subscribed, deleted, disabled and NULL-event_types rows
HookTables ==
    LET A == Webhook(TRUE, EventTypes({"product.created", "product.deleted",
                                       "product.uploaded"}), "", NoHeaders, 1)
        B == Webhook(TRUE, EventTypes({"product.updated", "product.bulk_deleted",
                                       "product.uploaded"}), "", NoHeaders, 1)
        Disabled == Webhook(FALSE, EventTypes(EventCatalog), "", NoHeaders, 1)
        Null == Webhook(TRUE, NullEventTypes, "", NoHeaders, 1)
    IN  { [w \in WebhookIds |-> IF w = 1 THEN r1 ELSE IF w = 2 THEN r2 ELSE r3] :
             r1 \in {A, NoWebhook}, r2 \in {B, Null}, r3 \in {Disabled, A} }

InitPublish ==
    /\ products \in InitialStores
    /\ nextId = Cardinality(products) + 1
    /\ uploaded = NoFile
    /\ disk = [p \in JobIds |-> NoFile]
    /\ job = [j \in JobIds |-> NoJob]
    /\ published \in {<< >>, <<uploaded_event(2)>>}
    /\ webhooks \in HookTables
    /\ wjob = NoDelivery
    /\ call = NoCall /\ response = NoResponse /\ ops = 0
    /\ req = NoReq /\ btasks = << >> /\ sessions = NoSessions
    /\ stored = NoStored /\ answer = NoAnswer /\ runs = NoRuns

NextPublish ==
    ProductCreate \/ ProductUpdate \/ ProductDelete \/ BulkDelete \/ RunTriggerTask

SpecPublish == InitPublish /\ [][NextPublish]_vars

\* bodies of a batch PATCH: update_operations, each with an id (0: none) and a new sku
Operations ==
    { [id |-> 0, sku |-> S("a")], [id |-> 1, sku |-> S("a")], [id |-> 1, sku |-> S("b")],
      [id |-> 2, sku |-> S("b")], [id |-> 3, sku |-> S("a")] }

UpdateOperations == UNION {[1..n -> Operations] : n \in 1..2}

RECURSIVE update_each(_, _, _, _)
\* views.py 451-472: the loop over update_operations inside the transaction; an
\* operation without id, for an unknown product or with invalid data adds an error,
\* every other operation is saved
update_each(update_operations, store, updated, errors) ==
    IF update_operations = << >>
    THEN [store |-> store, updated |-> updated, errors |-> errors, raised |-> FALSE]
    ELSE LET operation == Head(update_operations)
             found == {p \in store : p.id = operation.id}
             valid == \A p \in store : p.sku = operation.sku => p.id = operation.id
         IN  IF operation.id = 0 \/ found = {} \/ ~valid
             THEN update_each(Tail(update_operations), store, updated, errors + 1)
             ELSE update_each(Tail(update_operations),
                              {IF p.id = operation.id
                               THEN [p EXCEPT !.sku = operation.sku, !.name = S("n2")]
                               ELSE p : p \in store},
                              updated + 1, errors)

\* views.py 433-490: ProductEditView.patch with update_operations; the 400 for the
\* collected errors is returned from inside the with transaction.atomic() block
BatchUpdate ==
    /\ ops < MaxOps
    /\ \E update_operations \in UpdateOperations, fail \in Failures :
          LET block == update_each(update_operations, products, 0, 0)
              done == trigger_webhooks("product.bulk_updated", webhooks, fail)
          IN  /\ products' = atomic(products, block)
              /\ IF block.errors > 0
                 THEN /\ response' = [NoResponse EXCEPT !.op = "batch_update", !.status = 400,
                                         !.errors = block.errors, !.total = block.updated]
                      /\ call' = NoCall
                 ELSE /\ call' = Called("view", "product.bulk_updated", fail, done)
                      /\ response' = Responded([NoResponse EXCEPT
                                         !.op = "batch_update", !.status = 200,
                                         !.total = block.updated], done)
    /\ ops' = ops + 1
    /\ UNCHANGED <<nextId, disk, uploaded, job, published, hookVars, reqVars>>

NextBatch == BatchUpdate \/ ProductCreate \/ ProductDelete

SpecBatch == InitPublish /\ [][NextBatch]_vars

(***************************************************************************)
(* Properties of the publication                                           *)
(***************************************************************************)
\* the webhooks a publication of call.event is owed to
Subscribers ==
    {w \in WebhookIds :
        /\ webhooks[w].exists
        /\ webhooks[w].enabled
        /\ ~webhooks[w].event_types.is_null
        /\ call.event \in webhooks[w].event_types.items}

\* C9: a publication (trigger_webhooks or trigger_webhooks_task) schedules exactly one
\* send_webhook job for every enabled webhook subscribed to the event, none for a
\* disabled, deleted, unsubscribed or NULL-event_types webhook, and returns the number
\* of jobs scheduled: 0, with nothing scheduled, when no webhook matches.
C9_OneJobPerSubscriber ==
    call.via # "none" =>
        /\ Range(call.jobs) \subseteq Subscribers
        /\ Cardinality(Range(call.jobs)) = Len(call.jobs)
        /\ ~call.hit => Range(call.jobs) = Subscribers /\ call.ret = Len(call.jobs)
        /\ Subscribers = {} => call.ret = 0 /\ call.jobs = << >> /\ ~call.raised

C9_Witness ==
    /\ call.via = "task"
    /\ call.event = "product.uploaded"
    /\ call.jobs = <<1, 2>>
    /\ call.ret = 2
    /\ webhooks[3].exists /\ ~webhooks[3].enabled
    /\ "product.uploaded" \in webhooks[3].event_types.items

\* C10: a publication never raises to its caller: when loading the webhooks or
\* scheduling a job fails, trigger_webhooks returns 0, and the product request that
\* called it still answers with its normal success status, its change stored.
C10_PublishNeverFailsTheRequest ==
    /\ ~call.raised
    /\ call.hit => call.ret = 0
    /\ (response.op # "none" /\ response.status \notin {400, 404}) =>
          /\ response.op = "create" =>
                /\ response.status = 201
                /\ \E p \in products : p.id = response.id /\ p.sku = response.sku
          /\ response.op = "update" =>
                /\ response.status = 200
                /\ \E p \in products :
                      p.id = response.id /\ p.sku = response.sku /\ p.name = S("n2")
          /\ response.op = "delete" =>
                /\ response.status = 200
                /\ \A p \in products : p.id # response.id
          /\ response.op = "bulk_delete" =>
                /\ response.status = 200
                /\ \A p \in products : p.id \notin response.ids
                /\ response.deleted + response.errors = response.total

C10_Witness ==
    /\ response.op = "create"
    /\ response.status = 201
    /\ call.via = "view"
    /\ call.fail = "delay" /\ call.hit
    /\ Len(call.jobs) = 1
    /\ call.ret = 0
    /\ \E p \in products : p.id = response.id

IsSingleRequest == ops' = ops + 1 /\ response'.op \in {"create", "update", "delete"}

EventOf(op) == IF op = "create" THEN "product.created"
               ELSE IF op = "update" THEN "product.updated" ELSE "product.deleted"

Mutated(op, id) ==
    IF op = "create" THEN /\ \A p \in products : p.id # id
                          /\ \E p \in products' : p.id = id /\ products' = products \cup {p}
    ELSE IF op = "update" THEN /\ \E p \in products : p.id = id
                               /\ \E p \in products' : p.id = id /\ p.sku = response'.sku
                               /\ {p \in products' : p.id # id} = {p \in products : p.id # id}
    ELSE /\ \E p \in products : p.id = id
         /\ products' = {p \in products : p.id # id}

\* C24: a single create, update or delete that succeeds makes one publication, of
\* product.created, product.updated or product.deleted respectively, and the store the
\* publication leaves behind holds the mutation; a request rejected with 400 or 404
\* (validation error, no id, unknown product) makes no publication and leaves the
\* store as it was.
C24_OneEventPerSuccessfulMutation ==
    [][IsSingleRequest =>
          IF response'.status \in {200, 201}
          THEN /\ call'.via = "view" /\ call'.event = EventOf(response'.op)
               /\ Mutated(response'.op, response'.id)
          ELSE /\ response'.status \in {400, 404}
               /\ call' = NoCall
               /\ products' = products]_vars

\* a delete that succeeded after another request: its event is published and the
\* product is gone
C24_Witness ==
    /\ ops = 2
    /\ response.op = "delete" /\ response.status = 200
    /\ call.via = "view" /\ call.event = "product.deleted"
    /\ \A p \in products : p.id # response.id

\* C32: a batch update that is answered 400 has modified no product and has
\* published no event.
C32_BatchUpdateAllOrNothing ==
    [][(ops' = ops + 1 /\ response'.op = "batch_update" /\ response'.status = 400) =>
          /\ products' = products
          /\ call' = NoCall]_vars

(***************************************************************************)
(* Concurrent imports: two process_product_file jobs on two workers and    *)
(* the product endpoints.  The existence lookup of a chunk (tasks.py       *)
(* 418-424) and its writes (436-486) are two statements of one transaction;*)
(* under READ COMMITTED another transaction may commit between them.       *)
(***************************************************************************)
RaceHeader == <<S("sku"), S("name"), S("description"), S("status")>>

MaxRaceOps == 1

ShortFile ==
    CsvFile(RaceHeader, <<Row(S("b"), S("n1"), S("active")), Row(Padded("a"), S("n2"), S(""))>>)

RaceFiles ==
    { ShortFile,
      CsvFile(RaceHeader, Filler(chunksize) \o <<Row(S("a"), S("n2"), S("inactive"))>>) }

\* lines 280-290 and 418-424: the rows are validated, the transaction begins and looks
\* up which skus of the chunk exist
LookupChunk(j) ==
    /\ job[j].pc = "chunks"
    /\ chunk_of(j).first <= Len(disk[job[j].path].rows)
    /\ IF chunk_of(j).bad # {}
       THEN WriteChunk(j, {}, "none")
       ELSE /\ job' = [job EXCEPT ![j].pc = "write",
                                  ![j].existing = existing_skus(chunk_of(j).batch, products)]
            /\ UNCHANGED <<products, nextId, disk, uploaded, published, hookVars, pubVars, reqVars>>

\* lines 426-486 and 315-319: the writes of the chunk and the commit, or the rollback
CommitChunk(j) ==
    /\ job[j].pc = "write"
    /\ WriteChunk(j, job[j].existing, "none")

Lookup == \E j \in JobIds : LookupChunk(j)

Commit == \E j \in JobIds : CommitChunk(j)

\* a single create or update request arriving while the jobs run
RaceCreate == ops < MaxRaceOps /\ ProductCreate

RaceUpdate == ops < MaxRaceOps /\ ProductUpdate

InitRace ==
    /\ products = {}
    /\ nextId = Cardinality(products) + 1
    /\ uploaded = NoFile
    /\ \E file \in RaceFiles : disk = [p \in JobIds |-> IF p = Paths[1] THEN file ELSE ShortFile]
    /\ job = [j \in JobIds |-> Enqueued(Paths[j], products)]
    /\ published = << >>
    /\ webhooks = [w \in WebhookIds |-> NoWebhook]
    /\ wjob = NoDelivery
    /\ call = NoCall /\ response = NoResponse /\ ops = 0
    /\ req = NoReq /\ btasks = << >> /\ sessions = NoSessions
    /\ stored = NoStored /\ answer = NoAnswer /\ runs = NoRuns

NextRace == Validate \/ Lookup \/ Commit \/ Finished \/ RaceCreate \/ RaceUpdate

SpecRace == InitRace /\ [][NextRace]_vars

(***************************************************************************)
(* Properties of concurrent imports                                        *)
(***************************************************************************)
UniqueSku == \A p, q \in products : p.sku = q.sku => p = q

\* a sku of job j's chunk that was new at the lookup is in the store by now
LostRace(j) ==
    \E i \in 1..Len(chunk_of(j).batch) :
        /\ chunk_of(j).batch[i].sku \notin job[j].existing
        /\ chunk_of(j).batch[i].sku \in skus_of(products)

\* C23: no reachable store holds two products with the same sku, whatever the
\* interleaving of import jobs and single creates and updates; a chunk whose new sku
\* was created by someone else between its lookup and its writes does not commit: the
\* store stays as it is and the job fails.
C23_SkuUniqueUnderRaces ==
    /\ []UniqueSku
    /\ [][\A j \in JobIds :
             (job[j].pc = "write" /\ job'[j].pc # "write" /\ LostRace(j)) =>
                 /\ products' = products
                 /\ job'[j].pc = "done" /\ job'[j].state = "FAILURE"
                 /\ job'[j].success_count = job[j].success_count]_vars

\* two jobs raced for the new sku "a" with no other request around: one created it,
\* the other failed on it
C23_Witness ==
    \E j, k \in JobIds :
        /\ j # k /\ ops = 0
        /\ job[j].pc = "done" /\ job[j].error.kind = "create_failed"
        /\ S("a") \notin job[j].existing /\ S("a") \notin skus_of(job[j].store0)
        /\ job[k].n_create > 0 /\ job[k].state # "FAILURE"
        /\ Cardinality({p \in products : p.sku = S("a")}) = 1

(***************************************************************************)
(* Bulk delete: ProductEditView.delete with delete_all or ids              *)
(* (views.py 596-734) and the bulk_delete_products task (tasks.py 14-70)   *)
(***************************************************************************)
\* views.py 614 and 686: `if total_count < 100`
AsyncThreshold == 100

\* tasks.py 28
BATCH_SIZE == 10

\* the largest number of bulk_delete_products jobs requested in one behaviour
MaxBulkTasks == 1

\* mutant: the boundary takes the synchronous path
is_sync_inclusive(total_count) == total_count <= AsyncThreshold

\* views.py 614 / 686: sync if < 100, async if >= 100
is_sync(total_count) == total_count < AsyncThreshold

\* n products with the ids 1..n
StoreOf(n) == {Product(i, S("p" \o ToString(i)), S("n1"), S("active")) : i \in 1..n}

BulkStores == {StoreOf(0), StoreOf(AsyncThreshold - 1), StoreOf(AsyncThreshold)}

Upto(n) == [i \in 1..n |-> i]

\* the `ids` arrays of the requests: short, with a repeated id, around the threshold
IdLists == {<< >>, <<2, 3, 2>>, Upto(AsyncThreshold - 1), Upto(AsyncThreshold),
            Upto(AsyncThreshold + 1)}

\* bulk_delete_products.apply_async([product_ids]): the task as the broker holds it
BulkTask(product_ids) ==
    [ids |-> product_ids, pc |-> "queued", state |-> "PENDING", i |-> 0,
     deleted_count |-> 0, errors |-> 0,
     result |-> [deleted |-> 0, total |-> 0, errors |-> 0]]

\* views.py 618-628 / 690-700: every id is looked up and deleted, or reported missing
delete_each(product_ids, store) ==
    LET found == {p \in store : p.id \in Range(product_ids)}
    IN  [store |-> store \ found, deleted_count |-> Cardinality(found),
         errors |-> Len(product_ids) - Cardinality(found)]

\* the two branches of views.py 614-662 / 686-734 for the ids `product_ids`; the
\* publication made by the view meets no failure here (SpecPublish covers those)
Route(kind, product_ids) ==
    \E fail \in {f \in Failures : f.kind = "none"}, accepted \in BOOLEAN :
        LET total_count == Len(product_ids)
            done == trigger_webhooks("product.bulk_deleted", webhooks, fail)
            sync == delete_each(product_ids, products)
            asked == [NoReq EXCEPT !.kind = kind, !.n = total_count, !.ids = product_ids,
                                   !.store = products, !.tasks = Len(btasks)]
        IN  IF is_sync(total_count)
            THEN /\ products' = sync.store
                 /\ btasks' = btasks
                 /\ call' = Called("view", "product.bulk_deleted", fail, done)
                 /\ response' = Responded([NoResponse EXCEPT
                                    !.op = kind, !.status = 200, !.ids = Range(product_ids),
                                    !.deleted = sync.deleted_count, !.total = total_count,
                                    !.errors = sync.errors], done)
                 /\ req' = [asked EXCEPT !.left = sync.store]
            ELSE IF Len(btasks) >= MaxBulkTasks
            THEN FALSE
            ELSE IF accepted
            THEN /\ btasks' = Append(btasks, BulkTask(product_ids))
                 /\ products' = products
                 /\ call' = Called("view", "product.bulk_deleted", fail, done)
                 /\ response' = Responded([NoResponse EXCEPT
                                    !.op = kind, !.status = 202, !.task_id = Len(btasks) + 1,
                                    !.task_status = "PENDING", !.total = total_count], done)
                 /\ req' = [asked EXCEPT !.accepted = TRUE, !.left = products]
            ELSE /\ response' = [NoResponse EXCEPT !.op = kind, !.status = 500]
                 /\ call' = NoCall
                 /\ req' = [asked EXCEPT !.left = products]
                 /\ UNCHANGED <<products, btasks>>

\* the 400 of a request that names nothing to delete
Rejected(kind, product_ids) ==
    /\ response' = [NoResponse EXCEPT !.op = kind, !.status = 400]
    /\ call' = NoCall
    /\ req' = [NoReq EXCEPT !.kind = kind, !.ids = product_ids, !.store = products,
                            !.left = products, !.tasks = Len(btasks)]
    /\ UNCHANGED <<products, btasks>>

\* views.py 599-662: delete_all
DeleteAll ==
    /\ ops < MaxOps
    /\ LET total_count == Cardinality(products)
           all_product_ids == Ascending({p.id : p \in products})
       IN  IF total_count = 0
           THEN Rejected("delete_all", << >>)
           ELSE Route("delete_all", all_product_ids)
    /\ ops' = ops + 1
    /\ UNCHANGED <<nextId, disk, uploaded, job, published, hookVars, sessions, queryVars>>

\* views.py 664-734 and 767-771: ids
DeleteIds ==
    /\ ops < MaxOps
    /\ \E product_ids \in IdLists :
          IF product_ids = << >>
          THEN Rejected("delete_ids", product_ids)
          ELSE Route("delete_ids", product_ids)
    /\ ops' = ops + 1
    /\ UNCHANGED <<nextId, disk, uploaded, job, published, hookVars, sessions, queryVars>>

\* tasks.py 32-52: one batch of BATCH_SIZE ids, deleted in its own transaction
DeleteBatch(k) ==
    /\ btasks[k].pc \in {"queued", "running"}
    /\ btasks[k].i < Len(btasks[k].ids)
    /\ LET product_ids == btasks[k].ids
           last == IF btasks[k].i + BATCH_SIZE < Len(product_ids)
                   THEN btasks[k].i + BATCH_SIZE ELSE Len(product_ids)
           batch_ids == SubSeq(product_ids, btasks[k].i + 1, last)
           existing_ids == {p.id : p \in products} \cap Range(batch_ids)
           missing == {m \in 1..Len(batch_ids) : batch_ids[m] \notin existing_ids}
       IN  /\ products' = {p \in products : p.id \notin existing_ids}
           /\ btasks' = [btasks EXCEPT ![k].pc = "running", ![k].state = "STARTED",
                                       ![k].i = @ + BATCH_SIZE,
                                       ![k].deleted_count = @ + Cardinality(existing_ids),
                                       ![k].errors = @ + Cardinality(missing)]
    /\ UNCHANGED <<nextId, disk, uploaded, job, published, hookVars, pubVars, req, sessions, queryVars>>

bulk_deleted_event(deleted_count, total) ==
    [task |-> "trigger_webhooks_task", event |-> "product.bulk_deleted",
     deleted |-> deleted_count, total |-> total]

\* tasks.py 54-70: the result, the publication, and the except clause that turns a
\* refused apply_async into ValueError("Bulk delete failed: ...")
FinishBulk(k) ==
    /\ btasks[k].pc \in {"queued", "running"}
    /\ btasks[k].i >= Len(btasks[k].ids)
    /\ \E accepted \in BOOLEAN :
          IF accepted
          THEN /\ published' = Append(published,
                                  bulk_deleted_event(btasks[k].deleted_count, Len(btasks[k].ids)))
               /\ btasks' = [btasks EXCEPT ![k].pc = "done", ![k].state = "SUCCESS",
                                ![k].result = [deleted |-> btasks[k].deleted_count,
                                               total |-> Len(btasks[k].ids),
                                               errors |-> btasks[k].errors]]
          ELSE /\ published' = published
               /\ btasks' = [btasks EXCEPT ![k].pc = "done", ![k].state = "FAILURE"]
    /\ UNCHANGED <<products, nextId, disk, uploaded, job, hookVars, pubVars, req, sessions, queryVars>>

\* the worker takes the tasks one at a time, in the order of the queue
IsNext(k) == \A m \in 1..(k - 1) : btasks[m].pc = "done"

Batch == \E k \in 1..Len(btasks) : IsNext(k) /\ DeleteBatch(k)

FinishedBulk == \E k \in 1..Len(btasks) : IsNext(k) /\ FinishBulk(k)

InitBulk ==
    /\ products \in BulkStores
    /\ nextId = Cardinality(products) + 1
    /\ uploaded = NoFile
    /\ disk = [p \in JobIds |-> NoFile]
    /\ job = [j \in JobIds |-> NoJob]
    /\ published = << >>
    /\ webhooks = [w \in WebhookIds |->
                      IF w = 1
                      THEN Webhook(TRUE, EventTypes({"product.bulk_deleted"}), "", NoHeaders, 1)
                      ELSE NoWebhook]
    /\ wjob = NoDelivery
    /\ call = NoCall /\ response = NoResponse /\ ops = 0
    /\ req = NoReq /\ btasks = << >> /\ sessions = NoSessions
    /\ stored = NoStored /\ answer = NoAnswer /\ runs = NoRuns

NextBulk == DeleteAll \/ DeleteIds \/ Batch \/ FinishedBulk

SpecBulk == InitBulk /\ [][NextBulk]_vars

\* the longest of the short `ids` arrays the two paths are compared on
MaxIds == 3

\* short arrays over the ids 1..3, and arrays longer than a batch of the job with an
\* id repeated in the same batch and in another batch
ComparedLists ==
    UNION {[1..n -> 1..3] : n \in 1..MaxIds}
    \cup {<<2, 2>> \o Upto(AsyncThreshold), Upto(AsyncThreshold) \o <<2>>}

RECURSIVE delete_batches(_, _, _, _, _)
\* tasks.py 26-58: bulk_delete_products run to its result on `store`
delete_batches(product_ids, i, store, deleted_count, errors) ==
    IF i >= Len(product_ids)
    THEN [store |-> store, deleted_count |-> deleted_count, errors |-> errors]
    ELSE LET last == IF i + BATCH_SIZE < Len(product_ids)
                     THEN i + BATCH_SIZE ELSE Len(product_ids)
             batch_ids == SubSeq(product_ids, i + 1, last)
             existing_ids == {p.id : p \in store} \cap Range(batch_ids)
             missing == {m \in 1..Len(batch_ids) : batch_ids[m] \notin existing_ids}
         IN  delete_batches(product_ids, i + BATCH_SIZE,
                            {p \in store : p.id \notin existing_ids},
                            deleted_count + Cardinality(existing_ids),
                            errors + Cardinality(missing))

\* the same ids on the same store, once through the loop of the view (views.py
\* 690-700) and once through the job
RunBoth ==
    /\ runs = NoRuns
    /\ runs' = [sync |-> delete_each(req.ids, products),
                async |-> delete_batches(req.ids, 0, products, 0, 0)]
    /\ UNCHANGED <<importVars, hookVars, pubVars, req, btasks, sessions, stored, answer>>

InitBoth ==
    /\ products \in {StoreOf(0), StoreOf(2), StoreOf(AsyncThreshold)}
    /\ nextId = Cardinality(products) + 1
    /\ uploaded = NoFile
    /\ disk = [p \in JobIds |-> NoFile]
    /\ job = [j \in JobIds |-> NoJob]
    /\ published = << >>
    /\ webhooks = [w \in WebhookIds |-> NoWebhook]
    /\ wjob = NoDelivery
    /\ call = NoCall /\ response = NoResponse /\ ops = 0
    /\ \E product_ids \in ComparedLists :
          req = [NoReq EXCEPT !.kind = "delete_ids", !.ids = product_ids, !.n = Len(product_ids)]
    /\ btasks = << >> /\ sessions = NoSessions
    /\ stored = NoStored /\ answer = NoAnswer /\ runs = NoRuns

NextBoth == RunBoth

SpecBoth == InitBoth /\ [][NextBoth]_vars

(***************************************************************************)
(* Properties of the bulk delete                                           *)
(***************************************************************************)
\* the operation count of the last bulk-delete request and the ids it names
OperationCount ==
    IF req.kind = "delete_all" THEN Cardinality(req.store) ELSE Len(req.ids)

Targets ==
    IF req.kind = "delete_all" THEN {p.id : p \in req.store} ELSE Range(req.ids)

IsBulkRequest == req.kind \in {"delete_all", "delete_ids"}

\* the request deleted every target itself and answered with the final counts
DoneInRequest ==
    /\ response.status = 200
    /\ req.left = {p \in req.store : p.id \notin Targets}
    /\ response.deleted = Cardinality({p \in req.store : p.id \in Targets})
    /\ response.total = OperationCount
    /\ response.errors = response.total - response.deleted
    /\ Len(btasks) = req.tasks

\* the request deleted nothing and handed the ids to exactly one job
HandedToJob ==
    /\ response.status = 202
    /\ req.left = req.store
    /\ Len(btasks) = req.tasks + 1
    /\ Range(btasks[Len(btasks)].ids) = Targets
    /\ Len(btasks[Len(btasks)].ids) = OperationCount
    /\ response.task_id = Len(btasks)
    /\ response.task_status = "PENDING"
    /\ response.total = OperationCount

\* the request changed nothing and enqueued nothing
NothingDone == req.left = req.store /\ Len(btasks) = req.tasks

\* C12 (amended): with operation count n, 1 <= n < 100 is deleted in the request and
\* answered 200 with the final {deleted, total, errors}; n >= 100 (100 included)
\* deletes nothing in the request, enqueues exactly one bulk_delete_products job and
\* answers 202 with its task id and PENDING, or 500 with nothing enqueued when the
\* broker refuses the job; n = 0 is answered 400 with nothing done.
C12_BulkDeleteRouting ==
    IsBulkRequest =>
        /\ (1 <= OperationCount /\ OperationCount < 100) => DoneInRequest
        /\ (OperationCount >= 100 /\ req.accepted) => HandedToJob
        /\ (OperationCount >= 100 /\ ~req.accepted) => response.status = 500 /\ NothingDone
        /\ OperationCount = 0 => response.status = 400 /\ NothingDone

C12_Witness ==
    /\ req.kind = "delete_all"
    /\ Cardinality(req.store) = 100
    /\ response.status = 202
    /\ products = req.store
    /\ Len(btasks) = 1 /\ btasks[1].pc = "queued"

\* C12 as stated: every n < 100 is completed in the request with the final counts,
\* every n >= 100 is handed to one job
C12_AsStated ==
    IsBulkRequest =>
        /\ OperationCount < 100 => DoneInRequest
        /\ OperationCount >= 100 => HandedToJob

\* the step is a bulk-delete request answered with `code`
BulkAnswered(code) ==
    /\ ops' = ops + 1
    /\ req'.kind \in {"delete_all", "delete_ids"}
    /\ response'.status = code

\* the step ends job k with its result
BulkJobEnds(k) ==
    /\ k <= Len(btasks) /\ btasks[k].pc # "done"
    /\ btasks'[k].pc = "done" /\ btasks'[k].state = "SUCCESS"

\* C34: an accepted bulk delete publishes product.bulk_deleted exactly once and after
\* its deletions: the request completed in the request path publishes once, its
\* products deleted; the request handed to a job publishes nothing itself, and the
\* job publishes once when it ends, every batch deleted.
C34_BulkDeletedPublishedOnceAfterCommit ==
    /\ [][BulkAnswered(200) =>
             /\ call'.via = "view" /\ call'.event = "product.bulk_deleted"
             /\ products' = req'.left
             /\ published' = published]_vars
    /\ [][BulkAnswered(202) => call'.via = "none" /\ published' = published]_vars
    /\ [][\A k \in 1..MaxBulkTasks :
             BulkJobEnds(k) =>
                 /\ Len(published') = Len(published) + 1
                 /\ published'[Len(published')].event = "product.bulk_deleted"
                 /\ btasks[k].i >= Len(btasks[k].ids)
                 /\ products' = products]_vars

\* C33: for the same ids and the same store, the loop of the view and the job leave
\* the same store and report the same deleted count and the same number of
\* not-found errors, and in both deleted plus errors equals the number of ids.
C33_SyncAndAsyncAgree ==
    runs # NoRuns =>
        /\ runs.sync = runs.async
        /\ runs.sync.deleted_count + runs.sync.errors = Len(req.ids)
        /\ runs.async.deleted_count + runs.async.errors = Len(req.ids)

(***************************************************************************)
(* Upload: ProductUploadView.post (views.py 29-112), handle_chunked_upload *)
(* (utils.py 26-101) and handle_complete_upload (utils.py 104-134),        *)
(* followed by the import jobs they enqueue                                *)
(***************************************************************************)
UploadIds == {Paths[j] : j \in JobIds}

\* the bytes of one request's `file`: a header line (or none) and rows
Piece(header, rows) == [header |-> header, rows |-> rows]

Pieces ==
    { Piece(<< >>, << >>),
      Piece(<<S("sku"), S("name"), S("description")>>, <<Row(S("a"), S("n1"), S("active"))>>),
      Piece(<<S("name")>>, <<Row(S("a"), S("n1"), S("active"))>>),
      Piece(<< >>, <<Row(S("b"), S("n2"), S("inactive"))>>) }

\* the values of the form field `end`
Ends == {"", "0", "1", "2", "x"}

\* utils.py 40: int(end) == 1 if end else 0; int() raises ValueError on "x"
is_last_chunk(end) ==
    IF end = "" THEN [raised |-> FALSE, value |-> FALSE]
    ELSE IF end \notin {"0", "1", "2"} THEN [raised |-> TRUE, value |-> FALSE]
    ELSE [raised |-> FALSE, value |-> end = "1"]

\* a line of values read as a row
as_row(line) ==
    Row(line[1], IF Len(line) > 1 THEN line[2] ELSE S(""), IF Len(line) > 3 THEN line[4] ELSE S(""))

\* a row read as the header line
as_header(row) == <<row.sku, row.name, row.description, row.status>>

\* utils.py 52-54 / 112-114: the bytes are written at the end of the file, which is
\* created when it does not exist; the first line of a file is its header
append(file, piece) ==
    LET lines == (IF piece.header = << >> THEN << >> ELSE <<as_row(piece.header)>>)
                     \o piece.rows
    IN  IF file.exists /\ file.header # << >>
        THEN CsvFile(file.header, file.rows \o lines)
        ELSE IF piece.header # << >>
        THEN CsvFile(piece.header, piece.rows)
        ELSE IF piece.rows # << >>
        THEN CsvFile(as_header(Head(piece.rows)), Tail(piece.rows))
        ELSE CsvFile(<< >>, << >>)

\* mutant: every file is taken for a CSV
validate_csv_file_any(file) == TRUE

\* utils.py 137-145: pd.read_csv(file_path, nrows=1) raises when there is no file or
\* no column to parse
validate_csv_file(file) == file.exists /\ file.header # << >>

\* the import jobs enqueued so far
Jobs == {j \in JobIds : job[j].pc # "none"}

\* what became of the session once the request has written to it
Opened(upload_id) ==
    [sessions EXCEPT ![upload_id] = IF @ = "none" THEN "open" ELSE @]

\* the chunks written so far under each upload_id, in the order of the requests
Received(upload_id, piece) == [req.received EXCEPT ![upload_id] = @ \o <<piece>>]

\* utils.py 26-101: handle_chunked_upload; `given` = 0 when the request has no upload_id
UploadChunk ==
    /\ ops < MaxOps
    /\ \E given \in {0} \cup UploadIds, piece \in Pieces, end \in Ends, accepted \in BOOLEAN :
          LET last == is_last_chunk(end)
              unused == {u \in UploadIds : sessions[u] = "none" /\ ~disk[u].exists}
              upload_id == IF given # 0 THEN given
                           ELSE CHOOSE u \in unused : \A v \in unused : u <= v
              final_file == append(disk[upload_id], piece)
              free == JobIds \ Jobs
              task_id == CHOOSE j \in free : \A i \in free : j <= i
              asked == [NoReq EXCEPT !.kind = "chunk", !.upload_id = upload_id, !.end = end,
                                     !.piece = piece, !.files = disk, !.jobs = Cardinality(Jobs),
                                     !.given = given, !.received = Received(upload_id, piece)]
          IN  /\ given = 0 => unused # {}
              /\ IF last.raised
                 THEN /\ response' = [NoResponse EXCEPT !.op = "chunk", !.status = 400]
                      /\ req' = [asked EXCEPT !.upload_id = given, !.written = disk,
                                              !.received = req.received]
                      /\ UNCHANGED <<disk, job, sessions>>
                 ELSE IF ~last.value
                 THEN /\ disk' = [disk EXCEPT ![upload_id] = final_file]
                      /\ response' = [NoResponse EXCEPT !.op = "chunk", !.status = 200,
                                         !.upload_id = upload_id, !.upload_complete = FALSE]
                      /\ req' = [asked EXCEPT !.written = disk']
                      /\ sessions' = Opened(upload_id)
                      /\ job' = job
                 ELSE IF ~validate_csv_file(final_file)
                 THEN /\ disk' = Removed(upload_id)
                      /\ response' = [NoResponse EXCEPT !.op = "chunk", !.status = 400]
                      /\ req' = [asked EXCEPT !.written = disk']
                      /\ sessions' = [sessions EXCEPT ![upload_id] = "rejected"]
                      /\ job' = job
                 ELSE IF ~accepted
                 THEN /\ disk' = [disk EXCEPT ![upload_id] = final_file]
                      /\ response' = [NoResponse EXCEPT !.op = "chunk", !.status = 500]
                      /\ req' = [asked EXCEPT !.valid = TRUE, !.written = disk']
                      /\ sessions' = Opened(upload_id)
                      /\ job' = job
                 ELSE /\ free # {}
                      /\ disk' = [disk EXCEPT ![upload_id] = final_file]
                      /\ job' = [job EXCEPT ![task_id] = Enqueued(upload_id, products)]
                      /\ response' = [NoResponse EXCEPT !.op = "chunk", !.status = 202,
                                         !.task_id = task_id, !.task_status = "PENDING",
                                         !.upload_id = upload_id, !.upload_complete = TRUE]
                      /\ req' = [asked EXCEPT !.valid = TRUE, !.accepted = TRUE,
                                              !.written = disk']
                      /\ sessions' = [sessions EXCEPT ![upload_id] = "finalized"]
    /\ ops' = ops + 1
    /\ UNCHANGED <<products, nextId, uploaded, published, hookVars, call, btasks, queryVars>>

\* utils.py 104-134: handle_complete_upload, the request without `end`
UploadComplete ==
    /\ ops < MaxOps
    /\ \E piece \in Pieces, accepted \in BOOLEAN :
          LET unused == {u \in UploadIds : sessions[u] = "none" /\ ~disk[u].exists}
              upload_id == CHOOSE u \in unused : \A v \in unused : u <= v
              final_file == append(NoFile, piece)
              free == JobIds \ Jobs
              task_id == CHOOSE j \in free : \A i \in free : j <= i
              asked == [NoReq EXCEPT !.kind = "complete", !.upload_id = upload_id,
                                     !.piece = piece, !.files = disk, !.jobs = Cardinality(Jobs),
                                     !.received = Received(upload_id, piece)]
          IN  /\ unused # {}
              /\ disk' = [disk EXCEPT ![upload_id] = final_file]
              /\ IF ~validate_csv_file(final_file)
                 THEN /\ response' = [NoResponse EXCEPT !.op = "complete", !.status = 400]
                      /\ req' = [asked EXCEPT !.written = disk']
                      /\ sessions' = [sessions EXCEPT ![upload_id] = "single"]
                      /\ job' = job
                 ELSE IF ~accepted
                 THEN /\ response' = [NoResponse EXCEPT !.op = "complete", !.status = 500]
                      /\ req' = [asked EXCEPT !.valid = TRUE, !.written = disk']
                      /\ sessions' = [sessions EXCEPT ![upload_id] = "single"]
                      /\ job' = job
                 ELSE /\ free # {}
                      /\ job' = [job EXCEPT ![task_id] = Enqueued(upload_id, products)]
                      /\ response' = [NoResponse EXCEPT !.op = "complete", !.status = 202,
                                         !.task_id = task_id, !.task_status = "PENDING",
                                         !.upload_complete = TRUE]
                      /\ req' = [asked EXCEPT !.valid = TRUE, !.accepted = TRUE,
                                              !.written = disk']
                      /\ sessions' = [sessions EXCEPT ![upload_id] = "single"]
    /\ ops' = ops + 1
    /\ UNCHANGED <<products, nextId, uploaded, published, hookVars, call, btasks, queryVars>>

InitUpload ==
    /\ products \in {{}, {Product(1, S("a"), S("old"), S("inactive"))}}
    /\ nextId = Cardinality(products) + 1
    /\ uploaded = NoFile
    /\ disk = [p \in JobIds |-> NoFile]
    /\ job = [j \in JobIds |-> NoJob]
    /\ published = << >>
    /\ webhooks = [w \in WebhookIds |-> NoWebhook]
    /\ wjob = NoDelivery
    /\ call = NoCall /\ response = NoResponse /\ ops = 0
    /\ req = NoReq /\ btasks = << >> /\ sessions = NoSessions
    /\ stored = NoStored /\ answer = NoAnswer /\ runs = NoRuns

NextUpload == UploadChunk \/ UploadComplete \/ Validate \/ Chunk \/ Finished

SpecUpload == InitUpload /\ [][NextUpload]_vars

(***************************************************************************)
(* Properties of the upload                                                *)
(***************************************************************************)
\* the lines of text of one chunk, each as read for a header and as read for a row
LinesOf(piece) ==
    (IF piece.header = << >> THEN << >>
     ELSE <<[header |-> piece.header, row |-> as_row(piece.header)]>>)
    \o [i \in 1..Len(piece.rows) |-> [header |-> as_header(piece.rows[i]), row |-> piece.rows[i]]]

RECURSIVE Concatenation(_)
\* the lines of the chunks one after another
Concatenation(pieces) ==
    IF pieces = << >> THEN << >> ELSE LinesOf(Head(pieces)) \o Concatenation(Tail(pieces))

\* the file that holds these lines: the first is its header, the others its rows
FileOf(lines) ==
    IF lines = << >> THEN CsvFile(<< >>, << >>)
    ELSE CsvFile(lines[1].header, [i \in 1..(Len(lines) - 1) |-> lines[i + 1].row])

\* C31: whenever a file exists under an upload_id it is the concatenation of all the
\* chunks written under that upload_id, in the order the requests were handled,
\* repeated chunks included; a chunk request without upload_id starts a new file,
\* under an id nothing was written under before, that holds exactly the request's bytes.
C31_FileIsConcatenationOfChunks ==
    /\ \A u \in UploadIds :
           (disk[u].exists /\ sessions[u] # "single") =>
               disk[u] = FileOf(Concatenation(req.received[u]))
    /\ (req.kind = "chunk" /\ req.given = 0 /\ response.status # 400) =>
           /\ ~req.files[req.upload_id].exists
           /\ req.received[req.upload_id] = <<req.piece>>
           /\ req.written[req.upload_id] = FileOf(LinesOf(req.piece))

\* the import jobs the last request enqueued
JobsAdded == Cardinality(Jobs) - req.jobs

\* the file of the last request as it is once the request's bytes follow what the
\* file held before
Assembled == append(req.files[req.upload_id], req.piece)

HasHeaderLine(file) == file.exists /\ file.header # << >>

\* every file but the request's own is as it was
OthersUntouched == \A u \in UploadIds \ {req.upload_id} : req.written[u] = req.files[u]

\* C15 (amended): a job is enqueued only by a chunk request with end=1, for the file
\* with that request's bytes appended and found a valid CSV, and exactly one per such
\* request unless the broker refuses it (500, the file kept); a request whose end is
\* empty or an integer other than 1 appends its bytes, enqueues nothing and returns
\* 200 with the upload_id and upload_complete=false; an end that is not an integer
\* is answered 400 with nothing appended and nothing enqueued.
C15_JobOnlyAfterFinalChunk ==
    req.kind = "chunk" =>
        /\ JobsAdded \in {0, 1}
        /\ JobsAdded = 1 =>
              /\ req.end = "1"
              /\ req.written[req.upload_id] = Assembled
              /\ HasHeaderLine(Assembled)
              /\ response.status = 202 /\ response.upload_complete
              /\ job[response.task_id].path = req.upload_id
        /\ req.end = "1" =>
              /\ OthersUntouched
              /\ (HasHeaderLine(Assembled) /\ req.accepted) => JobsAdded = 1
              /\ (HasHeaderLine(Assembled) /\ ~req.accepted) =>
                    JobsAdded = 0 /\ response.status = 500
              /\ ~HasHeaderLine(Assembled) => JobsAdded = 0 /\ response.status = 400
        /\ req.end \in {"", "0", "2"} =>
              /\ req.written[req.upload_id] = Assembled
              /\ OthersUntouched
              /\ JobsAdded = 0
              /\ response.status = 200
              /\ response.upload_id = req.upload_id
              /\ ~response.upload_complete
        /\ req.end \notin {"", "0", "1", "2"} =>
              /\ response.status = 400
              /\ req.written = req.files
              /\ JobsAdded = 0

C15_Witness ==
    /\ req.kind = "chunk"
    /\ req.end = "1"
    /\ req.files[req.upload_id].exists
    /\ Len(req.written[req.upload_id].rows) = 2
    /\ JobsAdded = 1
    /\ job[response.task_id].pc = "queued"

\* C15 as stated: only end=1 enqueues, after the append and a passed validation, one job
\* per such request; every other end appends and answers with upload_complete=false
C15_AsStated ==
    req.kind = "chunk" =>
        /\ JobsAdded = 1 =>
              /\ req.end = "1"
              /\ req.written[req.upload_id] = Assembled
              /\ HasHeaderLine(Assembled)
        /\ req.end = "1" => (HasHeaderLine(Assembled) => JobsAdded = 1)
        /\ req.end # "1" =>
              /\ response.status = 200
              /\ JobsAdded = 0
              /\ req.written[req.upload_id] = Assembled
              /\ response.upload_id = req.upload_id
              /\ ~response.upload_complete

\* the last request asked for the import of its file: a final chunk, or a complete upload
IsFinalRequest == (req.kind = "chunk" /\ req.end = "1") \/ req.kind = "complete"

\* the file the last request assembled
AssembledFile ==
    IF req.kind = "complete" THEN append(NoFile, req.piece) ELSE Assembled

\* C16: on the final chunk and on the complete upload alike, a file that fails the
\* CSV validation is answered 400, is deleted from the disk, and no job is enqueued.
C16_InvalidFileRejectedAndDeleted ==
    (IsFinalRequest /\ ~HasHeaderLine(AssembledFile)) =>
        /\ response.status = 400
        /\ JobsAdded = 0
        /\ ~req.written[req.upload_id].exists

\* the import jobs enqueued for the file of upload u
JobsOf(u) == {j \in Jobs : job[j].path = u}

\* C17: once the final chunk of a chunked upload was rejected by the validation, or
\* the import job enqueued for it has terminated, no file of that upload_id is on the
\* disk, whatever chunks arrive afterwards.
C17_SessionDestroyedOnFinalize ==
    \A u \in UploadIds :
        (\/ sessions[u] = "rejected"
         \/ /\ sessions[u] = "finalized"
            /\ \A j \in JobsOf(u) : job[j].pc = "done") =>
            ~disk[u].exists

(***************************************************************************)
(* TaskStatusView.get (views.py 120-206): the status of a task, read from  *)
(* the live AsyncResult and from the TaskResult row of the same task id    *)
(***************************************************************************)
TaskFailed == Line(0, <<"Task failed">>)

\* line.strip()
stripped(line) == [line EXCEPT !.pre = 0]

\* mutant: stack-frame lines are not skipped
startswith_File_never(line) == FALSE

\* line.strip().startswith('File')
startswith_File(line) == line.parts # << >> /\ line.parts[1] = "File"

TracebackLines ==
    { Line(0, <<"Traceback (most recent call last):">>),
      Line(2, <<"File", " \"tasks.py\", line 265, in process_product_file">>),
      Line(0, <<"ValueError: Missing required columns: sku">>),
      Line(0, <<"File", "NotFoundError: [Errno 2] No such file or directory">>),
      Line(1, << >>),
      Line(0, << >>) }

MaxLines == 2

\* db_result.traceback: None, or a text given by the lines that split('\n') returns
Tracebacks ==
    {[none |-> TRUE, lines |-> << >>]}
        \cup {[none |-> FALSE, lines |-> ls] : ls \in UNION {[1..n -> TracebackLines] : n \in 1..MaxLines}}

\* a text is true unless it is None or ''
truthy(traceback) == ~traceback.none /\ traceback.lines # <<Line(0, << >>)>>

\* db_result.result: None, a dict with or without the key "error", a list, or a text
\* that json.loads rejects
DbResults ==
    { [kind |-> "none", has_error |-> FALSE, error |-> Line(0, << >>)],
      [kind |-> "dict", has_error |-> TRUE, error |-> Line(0, <<"Row 3: SKU is required">>)],
      [kind |-> "dict", has_error |-> FALSE, error |-> Line(0, << >>)],
      [kind |-> "list", has_error |-> FALSE, error |-> Line(0, << >>)],
      [kind |-> "garbage", has_error |-> FALSE, error |-> Line(0, << >>)] }

DbRecords ==
    { [found |-> FALSE, down |-> d, status |-> "PENDING",
       traceback |-> [none |-> TRUE, lines |-> << >>],
       result |-> [kind |-> "none", has_error |-> FALSE, error |-> Line(0, << >>)]] : d \in BOOLEAN }
        \cup [found : {TRUE}, down : {FALSE}, status : {"STARTED", "FAILURE"},
              traceback : Tracebacks, result : DbResults]

\* task_result.info of a task that is not successful: None, or the exception raised
Infos ==
    { [present |-> FALSE, text |-> Line(0, << >>)],
      [present |-> TRUE, text |-> Line(0, <<"Missing required columns: sku">>)],
      [present |-> TRUE, text |-> Line(0, << >>)] }

States == {"PENDING", "STARTED", "SUCCESS", "FAILURE", "REVOKED"}

\* AsyncResult.ready(): the state is one of celery's READY_STATES
ready(task_result) == task_result.state \in {"SUCCESS", "FAILURE", "REVOKED"}

successful(task_result) == task_result.state = "SUCCESS"

\* lines 166-172: the last line that is not blank and is not a stack frame, if any
last_meaningful_line(traceback_lines, error_message) ==
    LET meaningful == {i \in 1..Len(traceback_lines) :
                          /\ stripped(traceback_lines[i]).parts # << >>
                          /\ ~startswith_File(stripped(traceback_lines[i]))}
    IN  IF meaningful = {} THEN error_message
        ELSE stripped(traceback_lines[CHOOSE i \in meaningful : \A k \in meaningful : k <= i])

\* lines 149-183: the error text of a task that is ready and not successful
error_of(task_result) ==
    LET error_message == IF task_result.info.present THEN task_result.info.text ELSE TaskFailed
        db_result == task_result.db
    IN  IF ~db_result.found THEN error_message
        ELSE IF truthy(db_result.traceback)
        THEN last_meaningful_line(db_result.traceback.lines, error_message)
        ELSE IF db_result.result.kind = "dict" /\ db_result.result.has_error
        THEN db_result.result.error
        ELSE error_message

\* views.py 134-206
TaskStatus ==
    /\ ~answer.asked
    /\ answer' =
          IF ~stored.reachable
          THEN [NoAnswer EXCEPT !.asked = TRUE, !.http = 500]
          ELSE IF ready(stored) /\ successful(stored)
          THEN [NoAnswer EXCEPT !.asked = TRUE, !.http = 200, !.state = stored.state,
                                !.has_result = TRUE, !.result = stored.result]
          ELSE IF ready(stored)
          THEN [NoAnswer EXCEPT !.asked = TRUE, !.http = 200, !.state = stored.state,
                                !.has_error = TRUE, !.error = error_of(stored)]
          ELSE IF stored.db.found
          THEN [NoAnswer EXCEPT !.asked = TRUE, !.http = 200, !.state = stored.db.status,
                                !.has_result = stored.db.result.kind # "none",
                                !.result = stored.db.result]
          ELSE [NoAnswer EXCEPT !.asked = TRUE, !.http = 200, !.state = stored.state]
    /\ UNCHANGED <<importVars, hookVars, pubVars, req, btasks, sessions, stored, runs>>

InitStatus ==
    /\ products = {}
    /\ nextId = 1
    /\ uploaded = NoFile
    /\ disk = [p \in JobIds |-> NoFile]
    /\ job = [j \in JobIds |-> NoJob]
    /\ published = << >>
    /\ webhooks = [w \in WebhookIds |-> NoWebhook]
    /\ wjob = NoDelivery
    /\ call = NoCall /\ response = NoResponse /\ ops = 0
    /\ req = NoReq /\ btasks = << >> /\ sessions = NoSessions
    /\ stored \in [reachable : BOOLEAN, state : States, result : {3}, info : Infos, db : DbRecords]
    /\ stored.state = "SUCCESS" => ~stored.info.present
    /\ answer = NoAnswer /\ runs = NoRuns

NextStatus == TaskStatus

SpecStatus == InitStatus /\ [][NextStatus]_vars

(***************************************************************************)
(* Properties of the status query                                          *)
(***************************************************************************)
FailedAndTerminal == answer.asked /\ answer.http = 200 /\ stored.state \in {"FAILURE", "REVOKED"}

StructuredError == stored.db.found /\ stored.db.result.kind = "dict" /\ stored.db.result.has_error

HasTraceback ==
    /\ stored.db.found /\ ~stored.db.traceback.none
    /\ stored.db.traceback.lines # <<Line(0, << >>)>>

IsMessageLine(line) == line.parts # << >> /\ line.parts[1] # "File"

MessageLines == {i \in 1..Len(stored.db.traceback.lines) : IsMessageLine(stored.db.traceback.lines[i])}

LastMessageLine == stored.db.traceback.lines[CHOOSE i \in MessageLines : \A k \in MessageLines : k <= i]

InfoOrGeneric == IF stored.info.present THEN stored.info.text ELSE TaskFailed

\* C21: for a terminal failed job the reported error is the last non-empty line of
\* the stored traceback that does not start with 'File' when the stored record has a
\* traceback; the structured 'error' field of the stored result is used only when
\* there is no traceback; in every other case the text of the failure itself, or
\* 'Task failed' when there is none.  A successful job reports its result, no error.
C21_ErrorPreference ==
    /\ FailedAndTerminal =>
          /\ answer.has_error /\ ~answer.has_result
          /\ answer.error =
                IF HasTraceback
                THEN (IF MessageLines # {} THEN [LastMessageLine EXCEPT !.pre = 0]
                      ELSE InfoOrGeneric)
                ELSE IF StructuredError THEN stored.db.result.error
                ELSE InfoOrGeneric
    /\ (answer.asked /\ answer.http = 200 /\ stored.state = "SUCCESS") =>
          answer.has_result /\ answer.result = stored.result /\ ~answer.has_error

\* a failed job with a traceback whose last line is a FileNotFoundError and whose
\* result has an 'error' field: the line before the frames is reported
C21_Witness ==
    /\ FailedAndTerminal /\ HasTraceback /\ StructuredError
    /\ MessageLines # {} /\ Len(stored.db.traceback.lines) \notin MessageLines
    /\ answer.error # stored.db.result.error

\* C21 as stated: the structured 'error' field first, then the traceback line, then
\* 'Task failed'
C21_AsStated ==
    FailedAndTerminal =>
        answer.error =
            IF StructuredError THEN stored.db.result.error
            ELSE IF HasTraceback /\ MessageLines # {} THEN [LastMessageLine EXCEPT !.pre = 0]
            ELSE TaskFailed

====
